---- MODULE Spec2Model ----
(***************************************************************************)
(* Verification model of the endpoint probers of Kwisma/iptest.           *)
(*                                                                         *)
(* Part I  - the multi-round tunnel-handshake prober                       *)
(*           (src/nodejs/main.sh, first script; the same code is the       *)
(*           second script of src/nodejs/vless.js).                        *)
(* Part II - the trace prober with its connection pool and worker-pool     *)
(*           scheduler (src/unnamed/part_000).                             *)
(* Parts III to VI - the HTTP response reader, the handshake encoders, the *)
(*           reports and the list loader, each described at its place.     *)
(***************************************************************************)
EXTENDS Integers, Sequences, FiniteSets, TLC

(***************************************************************************)
(* Bounds of the model.                                                    *)
(***************************************************************************)
\* number of distinct ip:port keys an endpoint list may mention
NumKeys == 2
\* longest endpoint list
MaxList == 2
\* largest configured value of MAX_CONCURRENT (the script sets 50)
MaxConcurrency == 2
\* the model's value of TESTS_PER_IP (the script sets 4)
TESTS_PER_IP == 2
\* longest proxy list of the trace prober
MaxItems == 3
\* the model's value of CONCURRENCY_LIMIT (the script sets 200)
CONCURRENCY_LIMIT == 2
\* the model's value of the pool's maxPoolSize (the pool sets 500)
maxPoolSize == 1
\* bytes of the body of a chunked response in RoundTripSpec
MaxBody == 4
\* bytes of the body of a response in ReaderSpec
MaxLength == 2
\* the model's value of LIMIT_PER_COUNTRY (the script sets 5)
LIMIT_PER_COUNTRY == 2
\* most results a program reports
MaxProbes == 3

Keys == 1..NumKeys

RECURSIVE SeqMax(_)
SeqMax(s) == IF s = <<>> THEN 0
             ELSE LET m == SeqMax(Tail(s)) IN IF Head(s) > m THEN Head(s) ELSE m

\* Endpoint lists up to renaming of the keys: the first line is key 1 and
\* each later line repeats an earlier key or introduces the next one.  The
\* loader keeps repeated lines, so lists with a repeated ip:port are inputs.
RECURSIVE ListsOfLen(_)
ListsOfLen(n) ==
  IF n = 0 THEN {<<>>}
  ELSE {Append(s, k) : s \in ListsOfLen(n - 1), k \in Keys}

Canonical(s) == \A i \in 1..Len(s) : s[i] <= SeqMax(SubSeq(s, 1, i - 1)) + 1

IpPortLists == UNION {{s \in ListsOfLen(n) : Canonical(s)} : n \in 0..MaxList}

ProxyLists == UNION {{s \in ListsOfLen(n) : Canonical(s)} : n \in 0..MaxItems}

(***************************************************************************)
(* Part I: state of the multi-round prober.                                *)
(***************************************************************************)
VARIABLES
  MAX_CONCURRENT,     \* the configured limit, fixed for a run
  ipPortList,         \* the loaded list, a sequence of keys
  started,            \* main() has run
  testResults,        \* key -> [successes, failures, completed]
  completedTests,
  activeConnections,
  nextTestIndex,
  attempts,           \* one record per createWebSocketConnection call
  retryTimers,        \* pending setTimeout(..., RETRY_DELAY) callbacks, in order
  exited,             \* process.exit(0) has run
  saveCount,          \* number of saveResults() calls
  passed              \* keys written to the all output by saveResults()

\* Part II: state of the trace prober (declared here, described below)
VARIABLES
  items,              \* the shuffled proxy list, a sequence of keys
  phase,              \* "init", "batch", "done" (process.exit(0)), "exit1", "returned",
                      \* "rejected" (main rejected, the process lives on), "testing",
                      \* "shifting", "slices", "resolved"
  currentIndex,
  completed,
  results,            \* indices of the items checkProxy returned an object for
  outcome,            \* item index -> what its checkProxy call came to
  workers,            \* the worker() coroutines of processBatch
  sockets,            \* every net.Socket the pool created, by creation order
  connections,        \* connectionPool.connections, in Map insertion order
  stats,              \* connectionPool.stats
  relConn,            \* key -> the connection released last, 0 once the key is
                      \* acquired again or that connection is destroyed
  acqObs,             \* the latest getConnection: the released connection it
                      \* found for its key (0: none) and what it returned
  script,             \* "part_000" or "iptest": the copy of the trace prober that runs
  locations           \* locations.json at the start: "ok", "missing", "malformed"

poolVars == <<items, phase, currentIndex, completed, results, outcome,
              workers, sockets, connections, stats, relConn, acqObs,
              script, locations>>

proberVars == <<MAX_CONCURRENT, ipPortList, started, testResults, completedTests,
                activeConnections, nextTestIndex, attempts, retryTimers,
                exited, saveCount, passed>>

\* Part III: state of one sendHttpRequest call (described below)
VARIABLES
  response,           \* what the peer answers: status line, framing, body
  arrived,            \* elements of the response the socket has emitted as data
  sockState,          \* "open", "errored" (error emitted) or "closed"
  reader              \* the closure and the promise of sendHttpRequest

readerVars == <<response, arrived, sockState, reader>>

\* Part IV: the handshake encoders (described below)
VARIABLES
  uuid,               \* the uuid of VLESS_CONFIG / vlessConfig
  request             \* the bytes generateVLESSHandshake returned, <<>> before

encoderVars == <<uuid, request>>

\* Part V: the reports (described below)
VARIABLES
  program,            \* whose report: "main", "test", "trace" or "csv"
  probes,             \* what the program has to report, in its order
  limit,              \* the entries per country: 5, LIMIT_PER_COUNTRY, perCountryCount
  output              \* the top and the all list written

reportVars == <<program, probes, limit, output>>

\* Part VI: the list loader of the trace prober (described below)
VARIABLES
  csv,                \* the data rows of ips.csv: the IP cell and the port cell
  loader              \* the list readIpsCsv returned and the checkProxy calls made on it

loaderVars == <<csv, loader>>

\* The mutable globals and closures as one value, so that a handler is a
\* function from the state before it to the state after it.
Globals ==
  [testResults |-> testResults, completedTests |-> completedTests,
   activeConnections |-> activeConnections, nextTestIndex |-> nextTestIndex,
   attempts |-> attempts, retryTimers |-> retryTimers, exited |-> exited,
   saveCount |-> saveCount, passed |-> passed]

Commit(g) ==
  \E h \in {g} :
    /\ testResults' = h.testResults
    /\ completedTests' = h.completedTests
    /\ activeConnections' = h.activeConnections
    /\ nextTestIndex' = h.nextTestIndex
    /\ attempts' = h.attempts
    /\ retryTimers' = h.retryTimers
    /\ exited' = h.exited
    /\ saveCount' = h.saveCount
    /\ passed' = h.passed
    /\ UNCHANGED <<MAX_CONCURRENT, ipPortList, started>>
    /\ UNCHANGED <<poolVars, readerVars, encoderVars, reportVars, loaderVars>>

\* getTestResult: the record a key has before any attempt completed
NewResult == [successes |-> 0, failures |-> 0, completed |-> FALSE]

\* The closure of one createWebSocketConnection call.  ws is the state of the
\* WebSocket as far as its events go; calls and outcome record what the
\* closure did to handleTestCompletion, first what the first inbound message
\* had at offset 1 ("zero", or "other" for any other value or none).
NewAttempt(k, r) ==
  [key |-> k, round |-> r, ws |-> "connecting", testCompleted |-> FALSE,
   timer |-> TRUE, calls |-> 0, outcome |-> "none", first |-> "none"]

createWebSocketConnection(g, k, r) ==
  [g EXCEPT !.activeConnections = @ + 1,
            !.attempts = Append(@, NewAttempt(k, r))]

RECURSIVE startNextTest(_)
startNextTest(g) ==
  IF g.activeConnections < MAX_CONCURRENT /\ g.nextTestIndex < Len(ipPortList)
  THEN LET k  == ipPortList[g.nextTestIndex + 1]
           r  == g.testResults[k]
           g1 == IF r.successes + r.failures = 0
                 THEN createWebSocketConnection(g, k, 1)
                 ELSE g
       IN  startNextTest([g1 EXCEPT !.nextTestIndex = @ + 1])
  ELSE g

\* saveResults: the passed endpoints are those with successes === TESTS_PER_IP;
\* every one of them is written to the all output.  process.exit(0) follows.
saveResults(g) ==
  [g EXCEPT !.passed = {k \in Keys : g.testResults[k].successes = TESTS_PER_IP},
            !.saveCount = @ + 1,
            !.exited = TRUE]

handleTestCompletion(g, k, success) ==
  LET g1 == [g EXCEPT
               !.testResults[k] =
                  IF success THEN [@ EXCEPT !.successes = @ + 1]
                             ELSE [@ EXCEPT !.failures = @ + 1],
               !.activeConnections = @ - 1,
               !.completedTests = @ + 1]
      n  == g1.testResults[k].successes + g1.testResults[k].failures
      g2 == IF n = TESTS_PER_IP
            THEN [g1 EXCEPT !.testResults[k].completed = TRUE] ELSE g1
      g3 == IF n < TESTS_PER_IP
            THEN [g2 EXCEPT !.retryTimers = Append(@, [key |-> k, round |-> n + 1])]
            ELSE g2
      g4 == startNextTest(g3)
  IN  IF g4.completedTests = Len(ipPortList) * TESTS_PER_IP
      THEN saveResults(g4)
      ELSE g4

\* A closure calling handleTestCompletion for its attempt a.
Complete(g, a, success) ==
  handleTestCompletion(
    [g EXCEPT !.attempts[a].calls = @ + 1,
              !.attempts[a].outcome = IF @ = "none"
                                      THEN (IF success THEN "ok" ELSE "fail")
                                      ELSE @],
    g.attempts[a].key, success)

\* ws.terminate(): a connecting socket aborts its handshake (the library then
\* emits error and close), an open one is destroyed (close follows).
Terminated(ws) ==
  CASE ws \in {"connecting", "rejected"} -> "aborting"
    [] ws \in {"open", "closeSent"}      -> "closing"
    [] OTHER                             -> ws

Running == started /\ ~exited

\* main(): startConcurrentTests() when the list is not empty
Main ==
  /\ ~started
  /\ started' = TRUE
  /\ UNCHANGED <<MAX_CONCURRENT, ipPortList>>
  /\ UNCHANGED <<poolVars, readerVars, encoderVars, reportVars, loaderVars>>
  /\ LET g == IF Len(ipPortList) > 0 THEN startNextTest(Globals) ELSE Globals
     IN  /\ testResults' = g.testResults
         /\ completedTests' = g.completedTests
         /\ activeConnections' = g.activeConnections
         /\ nextTestIndex' = g.nextTestIndex
         /\ attempts' = g.attempts
         /\ retryTimers' = g.retryTimers
         /\ exited' = g.exited
         /\ saveCount' = g.saveCount
         /\ passed' = g.passed

\* the CONNECTION_TIMEOUT timer of attempt a fires
OnTimeout(g, a) ==
  LET g0 == [g EXCEPT !.attempts[a].timer = FALSE]
  IN  IF ~g.attempts[a].testCompleted
      THEN Complete([g0 EXCEPT !.attempts[a].ws = Terminated(@)], a, FALSE)
      ELSE g0

Timeout(a) ==
  /\ Running
  /\ attempts[a].timer
  /\ Commit(OnTimeout(Globals, a))

\* ws.on("open"): the handshake request is sent
WsOpen(a) ==
  /\ Running
  /\ attempts[a].ws = "connecting"
  /\ Commit([Globals EXCEPT !.attempts[a].ws = "open"])

\* ws.on("message"); ok says that the chunk has length >= 2 and chunk[1] = 0
OnMessage(g, a, ok) ==
  IF g.attempts[a].testCompleted THEN g
  ELSE IF ok
       THEN Complete([g EXCEPT !.attempts[a].testCompleted = TRUE,
                               !.attempts[a].timer = FALSE,
                               !.attempts[a].ws = "closeSent"], a, TRUE)
       ELSE g

\* the socket delivers a message to attempt a
Received(g, a, ok) ==
  [g EXCEPT !.attempts[a].first =
     IF @ = "none" THEN (IF ok THEN "zero" ELSE "other") ELSE @]

WsMessage(a, ok) ==
  /\ Running
  /\ attempts[a].ws \in {"open", "closeSent"}
  /\ Commit(OnMessage(Received(Globals, a, ok), a, ok))

\* ws.on("error"); the library emits close after it
OnError(g, a) ==
  LET g0 == [g EXCEPT !.attempts[a].timer = FALSE, !.attempts[a].ws = "closing"]
  IN  IF ~g.attempts[a].testCompleted
      THEN Complete([g0 EXCEPT !.attempts[a].testCompleted = TRUE], a, FALSE)
      ELSE g0

WsError(a) ==
  /\ Running
  /\ attempts[a].ws \in {"connecting", "rejected", "open", "closeSent", "aborting"}
  /\ Commit(OnError(Globals, a))

\* ws.on("close")
OnClose(g, a) ==
  LET g0 == [g EXCEPT !.attempts[a].timer = FALSE, !.attempts[a].ws = "closed"]
  IN  IF ~g.attempts[a].testCompleted
      THEN Complete(g0, a, FALSE)
      ELSE g0

WsClose(a) ==
  /\ Running
  /\ attempts[a].ws \in {"open", "closeSent", "closing"}
  /\ Commit(OnClose(Globals, a))

\* ws.on("unexpected-response"), at the end of the response
OnUnexpectedResponse(g, a) ==
  LET g0 == [g EXCEPT !.attempts[a].timer = FALSE, !.attempts[a].ws = "rejected"]
  IN  IF ~g.attempts[a].testCompleted
      THEN Complete([g0 EXCEPT !.attempts[a].testCompleted = TRUE], a, FALSE)
      ELSE g0

WsUnexpectedResponse(a) ==
  /\ Running
  /\ attempts[a].ws = "connecting"
  /\ Commit(OnUnexpectedResponse(Globals, a))

\* the RETRY_DELAY timer set by handleTestCompletion fires
RetryTimer ==
  /\ Running
  /\ retryTimers # <<>>
  /\ LET t == Head(retryTimers)
     IN  Commit(createWebSocketConnection(
                  [Globals EXCEPT !.retryTimers = Tail(@)], t.key, t.round))

ProberNext ==
  \/ Main
  \/ RetryTimer
  \/ \E a \in DOMAIN attempts :
       \/ Timeout(a)
       \/ WsOpen(a)
       \/ \E ok \in BOOLEAN : WsMessage(a, ok)
       \/ WsError(a)
       \/ WsClose(a)
       \/ WsUnexpectedResponse(a)

(***************************************************************************)
(* Part II: the trace prober of src/unnamed/part_000: ConnectionPool,      *)
(* getConnectionWithTimeout, checkProxy, processBatch and main.            *)
(***************************************************************************)
\* the pool's maxIdleTime (30000 ms), the unit of the clock: the age of a
\* conn object is Date.now() - conn.lastUsed in these units
maxIdleTime == 1

\* the workers processBatch can have: one more than it may start
Workers == 1..(CONCURRENCY_LIMIT + 1)

\* F of the value of v: v is evaluated once, however often F uses it
With(v, F(_)) == CHOOSE r \in {F(x) : x \in {v}} : TRUE

Pool ==
  [phase |-> phase, currentIndex |-> currentIndex, completed |-> completed,
   results |-> results, outcome |-> outcome, workers |-> workers,
   sockets |-> sockets, connections |-> connections, stats |-> stats,
   relConn |-> relConn, acqObs |-> acqObs]

\* relConn only remembers connections that are not destroyed
Forget(p) ==
  [p EXCEPT !.relConn =
     [k \in Keys |-> IF @[k] # 0 /\ p.sockets[@[k]].destroyed THEN 0 ELSE @[k]]]

PoolCommit(q) ==
  \E p \in {Forget(q)} :
    /\ phase' = p.phase
    /\ currentIndex' = p.currentIndex
    /\ completed' = p.completed
    /\ results' = p.results
    /\ outcome' = p.outcome
    /\ workers' = p.workers
    /\ sockets' = p.sockets
    /\ connections' = p.connections
    /\ stats' = p.stats
    /\ relConn' = p.relConn
    /\ acqObs' = p.acqObs
    /\ UNCHANGED <<items, script, locations>>
    /\ UNCHANGED <<proberVars, readerVars, encoderVars, reportVars, loaderVars>>

NoWorker == [pc |-> "absent", item |-> 0, sock |-> 0]

NoStats == [hits |-> 0, misses |-> 0, created |-> 0, closed |-> 0, errors |-> 0]

NoObs == [expected |-> 0, returned |-> 0, hit |-> FALSE, opened |-> FALSE]

\* position of key k in the Map, 0 when absent
PosOf(conns, k) ==
  IF \E i \in 1..Len(conns) : conns[i].key = k
  THEN CHOOSE i \in 1..Len(conns) : conns[i].key = k
  ELSE 0

RemoveAt(seq, i) == SubSeq(seq, 1, i - 1) \o SubSeq(seq, i + 1, Len(seq))

\* ConnectionPool.cleanup without the needShrink term
RECURSIVE cleanupIdleOnly(_, _, _, _)
cleanupIdleOnly(p, rest, force, closed) ==
  IF rest = <<>>
  THEN [pool |-> [p EXCEPT !.stats.closed = @ + closed], closed |-> closed]
  ELSE LET e == Head(rest)
       IN  IF e.age > maxIdleTime
           THEN cleanupIdleOnly(
                  [p EXCEPT !.sockets[e.sock].destroyed = TRUE,
                            !.connections = RemoveAt(@, PosOf(@, e.key))],
                  Tail(rest), force, closed + 1)
           ELSE cleanupIdleOnly(p, Tail(rest), force, closed)

\* ConnectionPool.cleanup: one pass over the Map in insertion order; an entry
\* goes when it is idle or, under force, while the Map is over maxPoolSize.
RECURSIVE cleanupFrom(_, _, _, _)
cleanupFrom(p, rest, force, closed) ==
  IF rest = <<>>
  THEN [pool |-> [p EXCEPT !.stats.closed = @ + closed], closed |-> closed]
  ELSE LET e          == Head(rest)
           isIdle     == e.age > maxIdleTime
           needShrink == force /\ Len(p.connections) > maxPoolSize
       IN  IF isIdle \/ needShrink
           THEN cleanupFrom(
                  [p EXCEPT !.sockets[e.sock].destroyed = TRUE,
                            !.connections = RemoveAt(@, PosOf(@, e.key))],
                  Tail(rest), force, closed + 1)
           ELSE cleanupFrom(p, Tail(rest), force, closed)

cleanup(p, force) == cleanupFrom(p, p.connections, force, 0)

\* ConnectionPool.destroy
destroy(p) ==
  LET r == cleanup(p, TRUE)
  IN  [r.pool EXCEPT !.stats.closed = @ + r.closed]

\* ConnectionPool.release closing what it releases
releaseAndClose(p, k) ==
  LET i == PosOf(p.connections, k)
  IN  IF i # 0
      THEN [p EXCEPT !.sockets[p.connections[i].sock].destroyed = TRUE,
                     !.connections = RemoveAt(@, i),
                     !.stats.closed = @ + 1]
      ELSE p

\* ConnectionPool.release
release(p, k) ==
  LET i == PosOf(p.connections, k)
  IN  IF i # 0 THEN [p EXCEPT !.connections[i].age = 0] ELSE p

\* ConnectionPool.getConnection up to its first await, called by worker w for
\* item i: a hit hands the cached connection out and the exchange starts; a
\* miss opens a socket and waits for it.
getConnection(pool, w, i) ==
  With(pool, LAMBDA p :
      LET k   == items[i]
          pos == PosOf(p.connections, k)
          hit == pos # 0 /\ ~p.sockets[p.connections[pos].sock].destroyed
          exp == Forget(p).relConn[k]
          p0  == [p EXCEPT !.relConn[k] = 0,
                           !.acqObs = IF exp = 0 THEN NoObs
                                      ELSE [expected |-> exp,
                                            returned |-> IF hit THEN p.connections[pos].sock ELSE 0,
                                            hit |-> hit, opened |-> ~hit]]
      IN  IF hit
          THEN [p0 EXCEPT !.connections[pos].age = 0,
                          !.stats.hits = @ + 1,
                          !.workers[w] = [pc |-> "exchange", item |-> i,
                                          sock |-> p.connections[pos].sock]]
          ELSE [p0 EXCEPT !.stats.misses = @ + 1,
                          !.sockets = Append(@, [key |-> k, stage |-> "tcp", destroyed |-> FALSE,
                                                 owner |-> w, age |-> 0]),
                          !.workers[w] = [pc |-> "acquire", item |-> i,
                                          sock |-> Len(p.sockets) + 1]])

\* main after processBatch: connectionPool.destroy(), the output, process.exit(0)
mainAfterBatch(p) == [destroy(p) EXCEPT !.phase = "done"]

\* a worker loop that takes the number of completed items as its index
\* instead of the shared counter
workerLoopStaleIndex(pool, w) ==
  With(pool, LAMBDA p :
      LET index == p.completed
          p1    == [p EXCEPT !.currentIndex = index + 1]
      IN  IF index >= Len(items)
          THEN LET p2 == [p1 EXCEPT !.workers[w] = [NoWorker EXCEPT !.pc = "finished"]]
               IN  IF \A v \in Workers : p2.workers[v].pc \in {"finished", "absent"}
                   THEN mainAfterBatch(p2)
                   ELSE p2
          ELSE getConnection(p1, w, index + 1))

\* one turn of worker w's loop: take the next index and start its checkProxy
workerLoop(pool, w) ==
  With(pool, LAMBDA p :
      LET index == p.currentIndex
          p1    == [p EXCEPT !.currentIndex = @ + 1]
      IN  IF index >= Len(items)
          THEN LET p2 == [p1 EXCEPT !.workers[w] = [NoWorker EXCEPT !.pc = "finished"]]
               IN  IF \A v \in Workers : p2.workers[v].pc \in {"finished", "absent"}
                   THEN mainAfterBatch(p2)
                   ELSE p2
          ELSE getConnection(p1, w, index + 1))

\* checkProxy of worker w returns: an object (what = "valid"), null after a
\* complete exchange (what = "null"), or null from its catch (what = "error").
\* The worker counts the item and goes round its loop.
checkProxyReturns(pool, w, what) ==
  With(pool, LAMBDA p :
      LET i  == p.workers[w].item
          p1 == [p EXCEPT !.outcome[i] = what,
                          !.results = IF what = "valid" THEN Append(@, i) ELSE @,
                          !.completed = @ + 1]
      IN  workerLoop(p1, w))

\* processBatch starting one worker per item
RECURSIVE startWorkerPerItem(_, _)
startWorkerPerItem(p, w) ==
  IF w > Len(items) \/ w \notin Workers THEN p
  ELSE startWorkerPerItem(
         workerLoop([p EXCEPT !.workers[w] = [NoWorker EXCEPT !.pc = "idle"]], w),
         w + 1)

\* processBatch: min(concurrency, total) workers, each run up to its first await
RECURSIVE startWorkers(_, _)
startWorkers(p, w) ==
  IF w > CONCURRENCY_LIMIT \/ w > Len(items) THEN p
  ELSE startWorkers(workerLoop([p EXCEPT !.workers[w] = [NoWorker EXCEPT !.pc = "idle"]], w),
                    w + 1)

\* a catch block that logs and calls process.exit(1).  part_000 logs with
\* logger.error.  iptest.js logs with error(...) inside catch (error): the
\* name is the caught exception there, the call throws a TypeError out of
\* the catch block, process.exit(1) is not reached; thrown again by the catch
\* of main it rejects main(), and the unhandledRejection handler logs it.
catchAndExit(p) ==
  [p EXCEPT !.phase = IF script = "part_000" THEN "exit1" ELSE "rejected"]

\* main(): startCleanupTimer(); with an empty list it returns; otherwise
\* checkLocationsJson (a missing file is downloaded, which can fail),
\* readLocationsJson, processBatch
main(p, downloaded) ==
  IF Len(items) = 0 THEN [p EXCEPT !.phase = "returned"]
  ELSE IF locations = "malformed" \/ (locations = "missing" /\ ~downloaded)
       THEN catchAndExit(p)
       ELSE startWorkers([p EXCEPT !.phase = "batch"], 1)

PoolMain ==
  /\ phase = "init"
  /\ \E downloaded \in BOOLEAN : PoolCommit(main(Pool, downloaded))

Batch == phase = "batch"

\* acquireRejected with the catch of checkProxy and of worker() missing: the
\* rejection ends the worker
acquireRejectedUncaught(pool, s) ==
  LET w == pool.sockets[s].owner
  IN  IF w = 0 THEN pool
      ELSE [pool EXCEPT !.outcome[pool.workers[w].item] = "error",
                        !.workers[w] = [NoWorker EXCEPT !.pc = "finished"]]

\* the owner's await of getConnectionWithTimeout rejects: checkProxy's catch
\* returns null without a release (hasConnection is false)
acquireRejected(pool, s) ==
  With(pool, LAMBDA p :
      LET w == p.sockets[s].owner
      IN  IF w = 0 THEN p ELSE checkProxyReturns(p, w, "error"))

\* the socket's connect event: the conn object is made and the TLS upgrade starts
TcpConnected(s) ==
  /\ Batch
  /\ sockets[s].stage = "tcp" /\ ~sockets[s].destroyed
  /\ PoolCommit([Pool EXCEPT !.sockets[s].stage = "tls",
                             !.sockets[s].age = 0])

\* AcquireFails with an onTimeout that cleans up and never rejects: the owner
\* goes on waiting
AcquireFailsSilently(s, why) ==
  /\ Batch
  /\ sockets[s].stage \in {"tcp", "tls"}
  /\ PoolCommit(
       IF why = "timeout"
       THEN [Pool EXCEPT !.sockets[s].stage = IF @ = "tcp" THEN "tcpFailed" ELSE "tlsFailed",
                         !.sockets[s].age = 0]
       ELSE acquireRejected(
              [Pool EXCEPT !.sockets[s].stage = IF @ = "tcp" THEN "tcpFailed" ELSE "tlsFailed",
                           !.sockets[s].age = 0,
                           !.sockets[s].destroyed = TRUE,
                           !.stats.errors = @ + 1], s))

\* createTCPSocket or upgradeToTLS rejects: on an error event the runtime has
\* destroyed the socket, on the timeout event it has not
AcquireFails(s, why) ==
  /\ Batch
  /\ sockets[s].stage \in {"tcp", "tls"}
  /\ PoolCommit(acquireRejected(
       [Pool EXCEPT !.sockets[s].stage = IF @ = "tcp" THEN "tcpFailed" ELSE "tlsFailed",
                    !.sockets[s].age = 0,
                    !.sockets[s].destroyed = (@ \/ why = "error"),
                    !.stats.errors = @ + 1], s))

\* secureConnect: the entry is set, the pool is trimmed, the owner, if it still
\* waits, starts its exchange on the connection
connectionReady(pool, s) ==
  With(pool, LAMBDA p :
      LET k   == p.sockets[s].key
          e   == [key |-> k, sock |-> s, age |-> p.sockets[s].age]
          pos == PosOf(p.connections, k)
          p1  == [p EXCEPT !.sockets[s].stage = "ready",
                           !.sockets[s].age = 0,
                           !.connections = IF pos = 0 THEN Append(@, e)
                                           ELSE [@ EXCEPT ![pos] = e],
                           !.stats.created = @ + 1]
          p2  == IF Len(p1.connections) > maxPoolSize THEN cleanup(p1, TRUE).pool ELSE p1
          w   == p.sockets[s].owner
      IN  IF w = 0 THEN p2
          ELSE [p2 EXCEPT !.workers[w].pc = "exchange", !.sockets[s].owner = 0])

TlsConnected(s) ==
  /\ Batch
  /\ sockets[s].stage = "tls" /\ ~sockets[s].destroyed
  /\ PoolCommit(connectionReady(Pool, s))

\* the timer of getConnectionWithTimeout wins the race (TCP_TIMEOUT_MS + 500,
\* so the connect itself was in time); getConnection goes on without an owner
AcquireTimeout(w) ==
  /\ Batch
  /\ workers[w].pc = "acquire"
  /\ sockets[workers[w].sock].stage = "tls"
  /\ PoolCommit(checkProxyReturns(
       [Pool EXCEPT !.sockets[workers[w].sock].owner = 0], w, "error"))

\* checkProxy after sendHttpRequest settled: release, then the verdict
exchangeSettled(pool, w, what) ==
  With(pool, LAMBDA p :
      LET k  == items[p.workers[w].item]
          c  == p.workers[w].sock
          p1 == [release(p, k) EXCEPT !.relConn[k] = c]
      IN  checkProxyReturns(p1, w, what))

\* sendHttpRequest resolves with a body; checkProxy finds it valid or not
ExchangeResolves(w, what) ==
  /\ Batch
  /\ workers[w].pc = "exchange"
  /\ ~sockets[workers[w].sock].destroyed
  /\ PoolCommit(exchangeSettled(Pool, w, what))

\* sendHttpRequest rejects: its timer, a non-200 status line of a live peer, or
\* the error or close event of a socket that is destroyed
ExchangeRejects(w, why) ==
  /\ Batch
  /\ workers[w].pc = "exchange"
  /\ why = "closed" => sockets[workers[w].sock].destroyed
  /\ why = "status" => ~sockets[workers[w].sock].destroyed
  /\ PoolCommit(exchangeSettled(Pool, w, "error"))

\* the peer resets or closes an established connection
SocketFails(s) ==
  /\ Batch
  /\ sockets[s].stage = "ready" /\ ~sockets[s].destroyed
  /\ PoolCommit([Pool EXCEPT !.sockets[s].destroyed = TRUE])

\* startCleanupTimer: cleanup() every 10 s
CleanupTimer ==
  /\ phase \in {"batch", "returned", "rejected"}
  /\ PoolCommit(cleanup(Pool, FALSE).pool)

\* Date.now() moves on by one unit of maxIdleTime; nothing in the program
\* bounds how far the wall clock moves between two of its events.  Every conn
\* object grows older; an age past maxIdleTime + 1 is not told apart.
older(age) == IF age > maxIdleTime THEN age ELSE age + 1

elapse(p) ==
  [p EXCEPT !.connections = [i \in DOMAIN @ |-> [@[i] EXCEPT !.age = older(@)]],
            !.sockets = [s \in DOMAIN @ |->
                           IF @[s].stage = "tls" THEN [@[s] EXCEPT !.age = older(@)]
                           ELSE @[s]]]

Tick ==
  /\ Batch
  /\ elapse(Pool) # Pool
  /\ PoolCommit(elapse(Pool))

\* testIPs of the first script of iptest.js, in the variables of processBatch:
\* items is ips, currentIndex counts the items shifted off queue, outcome[i]
\* is "active" while the promise of item i is in activePromises, and
\* options.maxThreads is CONCURRENCY_LIMIT.
Active(p) == {i \in 1..Len(items) : p.outcome[i] = "active"}

\* next(): start items while activePromises.size < maxThreads, then resolve
\* when everything completed
RECURSIVE next(_)
next(p) ==
  IF Cardinality(Active(p)) < CONCURRENCY_LIMIT /\ p.currentIndex < Len(items)
  THEN next([p EXCEPT !.currentIndex = @ + 1, !.outcome[p.currentIndex + 1] = "active"])
  ELSE IF p.completed = Len(items) /\ Active(p) = {}
       THEN [p EXCEPT !.phase = "resolved"]
       ELSE p

testIPs ==
  /\ phase = "init"
  /\ PoolCommit(next([Pool EXCEPT !.phase = "testing"]))

\* the promise of testSingleIP for item i settles with a result or with null
TestSingleIPSettles(i, what) ==
  /\ phase = "testing"
  /\ outcome[i] = "active"
  /\ PoolCommit(next([Pool EXCEPT !.results = IF what = "valid" THEN Append(@, i) ELSE @,
                                  !.outcome[i] = what,
                                  !.completed = @ + 1]))

\* processBatch of the second script of ip_tq.js, in the same variables:
\* currentIndex counts the items shifted off items, outcome[i] is "active"
\* while processor(item) is awaited.  The list holds non-empty strings (main
\* filters the lines with Boolean), so if (!item) break is not taken.
\* One turn of a worker's while loop; the last worker to leave its loop
\* resolves Promise.all.
shiftNext(p) ==
  IF p.currentIndex < Len(items)
  THEN [p EXCEPT !.currentIndex = @ + 1, !.outcome[p.currentIndex + 1] = "active"]
  ELSE IF Active(p) = {} THEN [p EXCEPT !.phase = "resolved"] ELSE p

\* Array(concurrency).fill().map(async ...): each worker runs to its first await
RECURSIVE shiftWorkers(_, _)
shiftWorkers(p, w) ==
  IF w > CONCURRENCY_LIMIT THEN p ELSE shiftWorkers(shiftNext(p), w + 1)

processBatchShift ==
  /\ phase = "init"
  /\ PoolCommit(shiftWorkers([Pool EXCEPT !.phase = "shifting"], 1))

\* the processor's promise for item i settles; its worker counts it and goes
\* round its loop
ShiftProcessorSettles(i, what) ==
  /\ phase = "shifting"
  /\ outcome[i] = "active"
  /\ PoolCommit(shiftNext([Pool EXCEPT !.results = IF what = "valid" THEN Append(@, i) ELSE @,
                                       !.outcome[i] = what,
                                       !.completed = @ + 1]))

\* processBatch of proxyip.js: slices of concurrency items, each awaited with
\* Promise.all.  currentIndex is the end of the slice in flight (i +
\* batch.length); completed is processed, the progress computed after each
\* slice as min(i + concurrency, items.length).
\* The head of the for loop: the next slice starts, or the function returns.
sliceNext(p) ==
  IF p.currentIndex >= Len(items) THEN [p EXCEPT !.phase = "resolved"]
  ELSE LET end == IF p.currentIndex + CONCURRENCY_LIMIT < Len(items)
                  THEN p.currentIndex + CONCURRENCY_LIMIT ELSE Len(items)
       IN  [p EXCEPT !.currentIndex = end,
                     !.outcome = [j \in DOMAIN @ |->
                                    IF j > p.currentIndex /\ j <= end THEN "active" ELSE @[j]]]

\* batchResults.filter(Boolean) of the slice that ends at currentIndex, in
\* the order of the slice
RECURSIVE batchResults(_, _)
batchResults(p, j) ==
  IF j > p.currentIndex THEN <<>>
  ELSE (IF p.outcome[j] = "valid" THEN <<j>> ELSE <<>>) \o batchResults(p, j + 1)

processBatchSlices ==
  /\ phase = "init"
  /\ PoolCommit(sliceNext([Pool EXCEPT !.phase = "slices"]))

\* a processor's promise of the slice settles; when it was the last of the
\* slice Promise.all resolves, the results are pushed and the loop goes on
SliceProcessorSettles(i, what) ==
  /\ phase = "slices"
  /\ outcome[i] = "active"
  /\ LET p1 == [Pool EXCEPT !.outcome[i] = what]
         i0 == CONCURRENCY_LIMIT * ((p1.currentIndex - 1) \div CONCURRENCY_LIMIT)
     IN  PoolCommit(IF Active(p1) # {} THEN p1
                    ELSE sliceNext([p1 EXCEPT !.results = @ \o batchResults(p1, i0 + 1),
                                              !.completed = p1.currentIndex]))

PoolNext ==
  \/ PoolMain
  \/ CleanupTimer
  \/ Tick
  \/ \E s \in DOMAIN sockets :
       \/ TcpConnected(s)
       \/ TlsConnected(s)
       \/ \E why \in {"error", "timeout"} : AcquireFails(s, why)
       \/ SocketFails(s)
  \/ \E w \in Workers :
       \/ AcquireTimeout(w)
       \/ \E what \in {"valid", "null"} : ExchangeResolves(w, what)
       \/ \E why \in {"timeout", "status", "closed"} : ExchangeRejects(w, why)

\* the single-round schedulers
SchedulerNext ==
  \/ PoolNext
  \/ testIPs
  \/ processBatchShift
  \/ processBatchSlices
  \/ \E i \in 1..Len(items) : \E what \in {"valid", "null"} :
       \/ TestSingleIPSettles(i, what)
       \/ ShiftProcessorSettles(i, what)
       \/ SliceProcessorSettles(i, what)

(***************************************************************************)
(* Part III: sendHttpRequest of src/unnamed/part_000, the reader of one    *)
(* HTTP response on a connected socket.                                    *)
(***************************************************************************)
\* one element per byte of the body; a header line is one element ("S200":
\* a status line that starts with HTTP/1.1 200, "S502": another status line,
\* "CL": content-length: before its digits, "TE": transfer-encoding: chunked).
\* "C3" "A9" are the two bytes of one UTF-8 character.
Bytes == {"0", "CR", "LF", "C3", "A9"}

CRLF == <<"CR", "LF">>

Hex == <<"0", "1", "2", "3", "4", "5", "6", "7", "8", "9",
         "a", "b", "c", "d", "e", "f">>

\* parseInt's NaN
NaN == -1

BodiesUpTo(max) == UNION {[1..n -> Bytes] : n \in 0..max}

\* the ways of cutting b into non-empty chunks
RECURSIVE Splits(_)
Splits(b) ==
  IF b = <<>> THEN {<<>>}
  ELSE UNION {{<<SubSeq(b, 1, k)>> \o rest : rest \in Splits(SubSeq(b, k + 1, Len(b)))}
                : k \in 1..Len(b)}

RECURSIVE Concat(_)
Concat(chunks) == IF chunks = <<>> THEN <<>> ELSE Head(chunks) \o Concat(Tail(chunks))

\* n in digits of the given base
RECURSIVE Digits(_, _)
Digits(n, base) ==
  IF n < base THEN <<Hex[n + 1]>>
  ELSE Digits(n \div base, base) \o <<Hex[(n % base) + 1]>>

\* chunked transfer coding of the peer: hex length, CRLF, payload, CRLF for
\* every chunk, then the zero-length chunk
RECURSIVE Encode(_)
Encode(chunks) ==
  IF chunks = <<>> THEN <<"0">> \o CRLF \o CRLF
  ELSE Digits(Len(Head(chunks)), 16) \o CRLF \o Head(chunks) \o CRLF \o Encode(Tail(chunks))

\* what the peer sends for a response: the status line, the header lines and
\* the empty line, then the body
Header(resp) ==
  <<resp.status>> \o CRLF
    \o (CASE resp.framing = "length"  -> <<"CL">> \o Digits(resp.declared, 10) \o CRLF
          [] resp.framing = "chunked" -> <<"TE">> \o CRLF
          [] OTHER                    -> <<>>)
    \o CRLF

Payload(resp) ==
  IF resp.framing = "chunked" THEN Encode(resp.chunks) ELSE Concat(resp.chunks)

Wire(resp) == Header(resp) \o Payload(resp)

NoResponse == [status |-> "S200", framing |-> "none", declared |-> 0, chunks |-> <<>>]

\* Buffer.slice / String.slice with 0 <= from: the elements from..to-1
\* a slice that keeps everything
sliceAll(s, from, to) == s

\* String/Array/Buffer.prototype.slice with 0 <= from
Slice(s, from, to) == SubSeq(s, from + 1, IF to < Len(s) THEN to ELSE Len(s))

\* indexOf: the first 0-based position >= from where pat starts, -1 if none
IndexOf(s, pat, from) ==
  LET hits == {i \in from..(Len(s) - Len(pat)) : Slice(s, i, i + Len(pat)) = pat}
  IN  IF hits = {} THEN -1 ELSE CHOOSE i \in hits : \A j \in hits : i <= j

\* Buffer.toString(): UTF-8 decoding into a string, one element per UTF-16
\* unit; a byte that is not part of a valid sequence becomes U+FFFD
RECURSIVE toString(_)
toString(buf) ==
  IF buf = <<>> THEN <<>>
  ELSE IF Len(buf) >= 2 /\ buf[1] = "C3" /\ buf[2] = "A9"
       THEN <<"U+00E9">> \o toString(SubSeq(buf, 3, Len(buf)))
       ELSE <<IF Head(buf) \in {"C3", "A9"} THEN "U+FFFD" ELSE Head(buf)>>
              \o toString(Tail(buf))

HexValue(c) == (CHOOSE i \in 1..Len(Hex) : Hex[i] = c) - 1

IsDigit(c, base) == \E i \in 1..base : Hex[i] = c

\* the value of a run of digits read from the left, NaN when it is empty
RECURSIVE DigitRun(_, _, _)
DigitRun(str, base, acc) ==
  IF str = <<>> \/ ~IsDigit(Head(str), base) THEN acc
  ELSE DigitRun(Tail(str), base, (IF acc = NaN THEN 0 ELSE acc * base) + HexValue(Head(str)))

\* parseInt(str, base): leading white space is skipped
RECURSIVE parseInt(_, _)
parseInt(str, base) ==
  IF str # <<>> /\ Head(str) \in {"CR", "LF"} THEN parseInt(Tail(str), base)
  ELSE DigitRun(str, base, NaN)

\* the loop of onData that decodes a chunked body (a string) from pos on
RECURSIVE decodeChunks(_, _, _)
decodeChunks(body, pos, chunks) ==
  IF pos >= Len(body) THEN chunks
  ELSE LET lineEnd == IndexOf(body, CRLF, pos)
       IN  IF lineEnd = -1 THEN chunks
           ELSE LET chunkSize  == parseInt(Slice(body, pos, lineEnd), 16)
                    chunkStart == lineEnd + 2
                    chunkEnd   == chunkStart + chunkSize
                IN  IF chunkSize = 0 \/ chunkSize = NaN THEN chunks
                    ELSE decodeChunks(body, chunkEnd + 2,
                                      chunks \o Slice(body, chunkStart, chunkEnd))

\* the closure of one sendHttpRequest call.  state, body and reason are the
\* promise; settles counts the calls of resolve and reject.
NoReader ==
  [state |-> "idle", listening |-> FALSE, timer |-> FALSE,
   buffer |-> <<>>, headersEnd |-> -1, contentLength |-> -1,
   isChunked |-> FALSE, bodyStart |-> 0, resolved |-> FALSE,
   settles |-> 0, body |-> <<>>, reason |-> "none"]

\* cleanupRequest that leaves the listeners on the socket
cleanupTimerOnly(r) == [r EXCEPT !.timer = FALSE]

\* cleanup of sendHttpRequest: clearTimeout and the three removeListener
cleanupRequest(r) == [r EXCEPT !.timer = FALSE, !.listening = FALSE]

resolve(r, body) ==
  IF r.state = "pending"
  THEN [r EXCEPT !.state = "resolved", !.body = body, !.settles = @ + 1]
  ELSE [r EXCEPT !.settles = @ + 1]

reject(r, reason) ==
  IF r.state = "pending"
  THEN [r EXCEPT !.state = "rejected", !.reason = reason, !.settles = @ + 1]
  ELSE [r EXCEPT !.settles = @ + 1]

startsWith200(headers) == headers # <<>> /\ headers[1] = "S200"

\* the header part of onData, run once the terminator is in the buffer
parseHeaders(r) ==
  LET headers == Slice(r.buffer, 0, r.headersEnd)
      cl      == {i \in 1..(Len(headers) - 1) :
                    headers[i] = "CL" /\ IsDigit(headers[i + 1], 10)}
      first   == CHOOSE i \in cl : \A j \in cl : i <= j
  IN  [r EXCEPT !.contentLength = IF cl = {} THEN @
                                  ELSE parseInt(Slice(headers, first, Len(headers)), 10),
                !.isChunked = \E i \in 1..Len(headers) : headers[i] = "TE",
                !.bodyStart = r.headersEnd + 4]

\* the body part of onData
checkBody(r) ==
  LET bodyBuffer == Slice(r.buffer, r.bodyStart, Len(r.buffer))
  IN  IF r.contentLength > 0 /\ Len(bodyBuffer) >= r.contentLength
      THEN resolve(cleanupRequest([r EXCEPT !.resolved = TRUE]),
                   toString(Slice(bodyBuffer, 0, r.contentLength)))
      ELSE IF r.isChunked
                /\ Len(bodyBuffer) >= 5
                /\ Slice(bodyBuffer, Len(bodyBuffer) - 5, Len(bodyBuffer)) = <<"0">> \o CRLF \o CRLF
           THEN resolve(cleanupRequest([r EXCEPT !.resolved = TRUE]),
                        decodeChunks(toString(bodyBuffer), 0, <<>>))
           ELSE r

onData(r, chunk) ==
  IF r.resolved THEN r
  ELSE LET r1 == [r EXCEPT !.buffer = @ \o chunk]
           r2 == IF r1.headersEnd = -1
                 THEN [r1 EXCEPT !.headersEnd = IndexOf(r1.buffer, CRLF \o CRLF, 0)]
                 ELSE r1
       IN  IF r1.headersEnd = -1 /\ r2.headersEnd # -1
           THEN IF ~startsWith200(Slice(r2.buffer, 0, r2.headersEnd))
                THEN reject(cleanupRequest(r2), "status")
                ELSE checkBody(parseHeaders(r2))
           ELSE IF r2.headersEnd # -1 THEN checkBody(r2) ELSE r2

onError(r) == reject(cleanupRequest(r), "socket")

onClose(r) == reject(cleanupRequest(r), "closed")

\* the callback of the TIMEOUT_MS timer
onRequestTimeout(r) == reject(cleanupRequest(r), "timeout")

ReaderCommit(r, n, sock) ==
  /\ reader' = r
  /\ arrived' = n
  /\ sockState' = sock
  /\ UNCHANGED response
  /\ UNCHANGED <<proberVars, poolVars, encoderVars, reportVars, loaderVars>>

\* sendHttpRequest is called: the timer is armed, the listeners are attached,
\* the request is written
SendRequest ==
  /\ reader.state = "idle"
  /\ ReaderCommit([reader EXCEPT !.state = "pending", !.listening = TRUE, !.timer = TRUE],
                  arrived, sockState)

\* the socket emits data with the next n elements of the response, for any n.
\* With no listener attached nobody sees how the rest is cut: it is one event.
SocketData ==
  /\ reader.state # "idle"
  /\ sockState = "open"
  /\ \E wire \in {Wire(response)} :
       \E n \in 1..(Len(wire) - arrived) :
         /\ reader.listening \/ arrived + n = Len(wire)
         /\ ReaderCommit(IF reader.listening
                         THEN onData(reader, SubSeq(wire, arrived + 1, arrived + n))
                         ELSE reader,
                         arrived + n, sockState)

\* the socket emits error; close follows
SocketError ==
  /\ sockState = "open"
  /\ ReaderCommit(IF reader.listening THEN onError(reader) ELSE reader, arrived, "errored")

\* the socket emits close
SocketClose ==
  /\ sockState \in {"open", "errored"}
  /\ ReaderCommit(IF reader.listening THEN onClose(reader) ELSE reader, arrived, "closed")

\* the TIMEOUT_MS timer fires
RequestTimeout ==
  /\ reader.timer
  /\ ReaderCommit(onRequestTimeout(reader), arrived, sockState)

RoundTripNext ==
  \/ SendRequest
  \/ SocketData

ReaderNext ==
  \/ SendRequest
  \/ SocketData
  \/ SocketError
  \/ SocketClose
  \/ RequestTimeout

ChunkedResponses(max) ==
  {[status |-> "S200", framing |-> "chunked", declared |-> 0, chunks |-> c] :
      c \in UNION {Splits(b) : b \in BodiesUpTo(max)}}

\* responses with a Content-Length: the body may go on after the declared length
LengthResponses(max) ==
  UNION {{[status |-> s, framing |-> "length", declared |-> n, chunks |-> <<b>>] :
            s \in {"S200", "S502"}, n \in 0..Len(b)} : b \in BodiesUpTo(max)}

PlainResponses(max) ==
  {[status |-> "S200", framing |-> "none", declared |-> 0, chunks |-> <<b>>] :
      b \in BodiesUpTo(max)}

(***************************************************************************)
(* Part IV.  The VLESS handshake encoders of src/nodejs/main.sh: the       *)
(* first script addresses 1.1.1.1 (address type 1), the second             *)
(* www.google.com (address type 2).  A string is a sequence of characters, *)
(* a Uint8Array a sequence of numbers in 0..255.                           *)
(***************************************************************************)

\* the UUID of VLESS_CONFIG / vlessConfig as shipped
ConfiguredUuid ==
  <<"0", "0", "0", "0", "0", "0", "0", "0", "-", "0", "0", "0", "0", "-",
    "4", "0", "0", "0", "-", "8", "0", "0", "0", "-",
    "0", "0", "0", "0", "0", "0", "0", "0", "0", "0", "0", "0">>

\* the hexadecimal digits a configured UUID is varied with
UuidDigits == {"0", "7", "a", "f"}

\* the configured UUIDs considered: the shipped one with two neighbouring
\* digits replaced
Uuids ==
  {[i \in 1..Len(ConfiguredUuid) |->
      IF i = p THEN h1 ELSE IF i = p + 1 THEN h2 ELSE ConfiguredUuid[i]] :
     p \in {q \in 1..(Len(ConfiguredUuid) - 1) :
              ConfiguredUuid[q] # "-" /\ ConfiguredUuid[q + 1] # "-"},
     h1 \in UuidDigits, h2 \in UuidDigits}

\* storing a number in a Uint8Array element: NaN becomes 0, the rest wraps
Uint8(v) == IF v = NaN THEN 0 ELSE v % 256

\* new Uint8Array(length)
Zeros(length) == [i \in 1..length |-> 0]

\* uuid.replace(/-/g, "")
stripHyphens(id) == SelectSeq(id, LAMBDA c : c # "-")

uuidToBytes(id) ==
  LET uuidStr == stripHyphens(id)
  IN  [b \in 1..16 |-> Uint8(parseInt(Slice(uuidStr, 2 * (b - 1), 2 * (b - 1) + 2), 16))]

\* a DataView write in the other byte order
setUint16LittleEndian(v) == <<v % 256, (v \div 256) % 256>>

\* portView.setUint16(0, v) on a fresh two-byte array: big-endian by default
setUint16(v) == <<(v \div 256) % 256, v % 256>>

\* request.set(array, offset)
set(request_, array, offset) ==
  [i \in 1..Len(request_) |->
     IF i - 1 >= offset /\ i - 1 < offset + Len(array) THEN array[i - offset]
     ELSE request_[i]]

\* the character codes of the characters of targetHost
CharCode(c) ==
  CASE c = "w" -> 119 [] c = "." -> 46 [] c = "g" -> 103 [] c = "o" -> 111
    [] c = "l" -> 108 [] c = "e" -> 101 [] c = "c" -> 99 [] c = "m" -> 109

\* new TextEncoder().encode(str) of a string of ASCII characters
encode(str) == [i \in 1..Len(str) |-> CharCode(str[i])]

targetHost ==
  <<"w", "w", "w", ".", "g", "o", "o", "g", "l", "e", ".", "c", "o", "m">>

\* the first script's encoder
generateVLESSHandshake(configUuid) ==
  LET version     == <<0>>
      uuidBytes   == uuidToBytes(configUuid)
      addonsLen   == <<0>>
      portBytes   == setUint16(80)
      addrType    == <<1>>
      ipBytes     == <<1, 1, 1, 1>>
      totalLength == 1 + 16 + 1 + 2 + 1 + 4
      r0 == Zeros(totalLength)
      r1 == set(r0, version, 0)
      r2 == set(r1, uuidBytes, 1)
      r3 == set(r2, addonsLen, 17)
      r4 == set(r3, portBytes, 18)
      r5 == set(r4, addrType, 20)
  IN  set(r5, ipBytes, 21)

\* the second script's encoder
generateVLESSHandshakeDomain(configUuid) ==
  LET uuidStr      == stripHyphens(configUuid)
      uuidBytes    == [b \in 1..16 |->
                         Uint8(parseInt(Slice(uuidStr, 2 * (b - 1), 2 * (b - 1) + 2), 16))]
      version      == <<0>>
      addonsLen    == <<0>>
      portBytes    == setUint16(80)
      addrType     == <<2>>
      hostBytes    == encode(targetHost)
      hostLen      == <<Uint8(Len(hostBytes))>>
      headerLength == 1 + 16 + 1 + 2 + 1 + 1 + Len(hostBytes)
      r0 == Zeros(headerLength)
      r1 == set(r0, version, 0)
      r2 == set(r1, uuidBytes, 1)
      r3 == set(r2, addonsLen, 17)
      r4 == set(r3, portBytes, 18)
      r5 == set(r4, addrType, 20)
      r6 == set(r5, hostLen, 21)
  IN  set(r6, hostBytes, 22)

\* no handshake built yet
NoRequest == <<>>

EncoderIdle == uuid = ConfiguredUuid /\ request = NoRequest

\* ws.on("open") builds the handshake of its script and sends it
HandshakeIPv4 ==
  /\ request = NoRequest
  /\ request' = generateVLESSHandshake(uuid)
  /\ UNCHANGED <<uuid, proberVars, poolVars, readerVars, reportVars, loaderVars>>

HandshakeDomain ==
  /\ request = NoRequest
  /\ request' = generateVLESSHandshakeDomain(uuid)
  /\ UNCHANGED <<uuid, proberVars, poolVars, readerVars, reportVars, loaderVars>>

EncoderNext == HandshakeIPv4 \/ HandshakeDomain

(***************************************************************************)
(* Part V.  The programs' reports: saveResults of src/nodejs/main.sh and   *)
(* of src/vless_test.js, checkProxy's verdict and addSequentialNumbers of  *)
(* src/unnamed/part_000, generateAndSaveResults of src/ip_tq.js.  An       *)
(* address is the place of its probe in the input; an emitted line is a    *)
(* record of its address, the country written after #, the number written  *)
(* after the country and, where the program has one, the latency.          *)
(***************************************************************************)

\* the literal 5 of the two saveResults, scaled like LIMIT_PER_COUNTRY
Top5 == LIMIT_PER_COUNTRY

\* locations as loadIpPortList stores them (trimmed): a name, with or without
\* a numeric suffix, with or without a blank before it
Locations == {<<"A">>, <<"A", "1">>, <<"A", " ", "2">>, <<"A", "1", " ", "2">>, <<"B">>}

Latencies == {1, 2}

\* location.replace(/\d+$/, "")
RECURSIVE stripDigits(_)
stripDigits(str) ==
  IF str # <<>> /\ IsDigit(str[Len(str)], 10)
  THEN stripDigits(SubSeq(str, 1, Len(str) - 1))
  ELSE str

\* String.prototype.trim
RECURSIVE trim(_)
trim(str) ==
  IF str # <<>> /\ str[Len(str)] = " " THEN trim(SubSeq(str, 1, Len(str) - 1))
  ELSE IF str # <<>> /\ str[1] = " " THEN trim(Tail(str))
  ELSE str

countryBase(location) == trim(stripDigits(location))

\* the number of a line as the template literal writes it, for numbers below 10
toDigits(n) == <<Hex[n + 1]>>

\* passedIPs.sort((a, b) => a.avgLatency - b.avgLatency): Array.prototype.sort
\* is stable
RECURSIVE sortByLatency(_)
sortByLatency(list) ==
  IF list = <<>> THEN <<>>
  ELSE LET last   == list[Len(list)]
           sorted == sortByLatency(SubSeq(list, 1, Len(list) - 1))
           before == SelectSeq(sorted, LAMBDA x : x.avgLatency <= last.avgLatency)
           after  == SelectSeq(sorted, LAMBDA x : x.avgLatency > last.avgLatency)
       IN  before \o <<last>> \o after

\* a list in input order as it is, for the mutation of sortByLatency
unsorted(list) == list

\* a sequence without the repetitions of its elements
RECURSIVE Distinct(_)
Distinct(list) ==
  IF list = <<>> THEN <<>>
  ELSE LET rest == Distinct(SubSeq(list, 1, Len(list) - 1))
           k    == list[Len(list)]
       IN  IF \E i \in 1..Len(rest) : rest[i] = k THEN rest ELSE Append(rest, k)

\* the keys of an object filled from list, in insertion order
KeysOf(list, key(_)) == Distinct([i \in 1..Len(list) |-> key(list[i])])

\* numbering that starts at 0
NumberedFromZero(list, country) ==
  [i \in 1..Len(list) |-> [ip |-> list[i].ip, country |-> country, rank |-> i - 1]]

\* countryItems.forEach((item, index) => ...push(`...#${country}${index + 1}`))
Numbered(list, country) ==
  [i \in 1..Len(list) |-> [ip |-> list[i].ip, country |-> country, rank |-> i]]

NumberedWithLatency(list, country) ==
  [i \in 1..Len(list) |-> [ip |-> list[i].ip, country |-> country, rank |-> i,
                           latency |-> list[i].avgLatency]]

\* the concatenation of f(k) over the keys, in their order
Flat(keys, f(_)) == Concat([i \in 1..Len(keys) |-> f(keys[i])])

\* saveResults of main.sh on the results that passed, in the order of testResults
saveResultsLists(passedResults) ==
  LET passedIPs       == sortByLatency(passedResults)
      sortedCountries == KeysOf(passedIPs, LAMBDA item : countryBase(item.location))
      countryItems(country) ==
        SelectSeq(passedIPs, LAMBDA item : countryBase(item.location) = country)
  IN  [all |-> Flat(sortedCountries,
                    LAMBDA c : NumberedWithLatency(countryItems(c), c)),
       top |-> Flat(sortedCountries,
                    LAMBDA c : SubSeq(NumberedWithLatency(countryItems(c), c), 1,
                                      IF Len(countryItems(c)) < Top5
                                      THEN Len(countryItems(c)) ELSE Top5))]

\* one pass of saveResults of vless_test.js over ipPortList from item i on,
\* counters holding the next number of every country; only numbers up to max
\* are emitted
RECURSIVE numberInOrder(_, _, _, _)
numberInOrder(list, i, counters, max) ==
  IF i > Len(list) THEN <<>>
  ELSE LET base == countryBase(list[i].location)
           n    == counters[base]
           line == [ip |-> list[i].ip, country |-> base, rank |-> n,
                    latency |-> list[i].avgLatency]
       IN  (IF n <= max THEN <<line>> ELSE <<>>)
             \o numberInOrder(list, i + 1, [counters EXCEPT ![base] = n + 1], max)

\* saveResults of vless_test.js with one counter object behind both lists:
\* the top list goes on from the numbers the all list ended with
saveResultsSharedCounters(list) ==
  LET counters == [b \in {countryBase(l) : l \in Locations} |-> 1]
      used == [b \in {countryBase(l) : l \in Locations} |->
                 1 + Len(SelectSeq(list, LAMBDA item : countryBase(item.location) = b))]
  IN  [all |-> numberInOrder(list, 1, counters, Len(list)),
       top |-> numberInOrder(list, 1, used, Top5)]

\* saveResults of vless_test.js on the list items that have a latency recorded
saveResultsInListOrder(list) ==
  LET counters == [b \in {countryBase(l) : l \in Locations} |-> 1]
  IN  [all |-> numberInOrder(list, 1, counters, Len(list)),
       top |-> numberInOrder(list, 1, counters, Top5)]

\* locations.json as readLocationsJson loads it: datacenter code -> country
coloMap == [LAX |-> "US", SJC |-> "US", FRA |-> "DE"]

\* the colo= line of a trace: absent, a code of the table, a code outside it
Colos == {"none", "LAX", "SJC", "FRA", "XXX"}

\* the ip= line of a trace: absent, an IPv4 or an IPv6 address
Outbounds == {"none", "ipv4", "ipv6"}

has(map, key) == key \in DOMAIN map

\* checkProxy without its check of the location
checkProxyAnyColo(i, trace) ==
  IF trace.ip # "ipv4"
  THEN [valid |-> FALSE, ip |-> i, country |-> "", colo |-> trace.colo]
  ELSE [valid |-> TRUE, ip |-> i, colo |-> trace.colo,
        country |-> IF has(coloMap, trace.colo) THEN coloMap[trace.colo]
                    ELSE "Unknown"]

\* checkProxy after a complete exchange with OUTPUT_TYPE = "ipv4": the object
\* it returns (valid) or null
checkProxyVerdict(i, trace) ==
  LET null == [valid |-> FALSE, ip |-> i, country |-> "", colo |-> trace.colo]
  IN  IF trace.ip = "none" THEN null
      ELSE IF trace.ip = "ipv6" THEN null
      ELSE IF trace.colo = "none" \/ ~has(coloMap, trace.colo) THEN null
      ELSE [valid |-> TRUE, ip |-> i, country |-> coloMap[trace.colo],
            colo |-> trace.colo]

\* the country names in use, in the order of their UTF-16 code units
CountryOrder == <<"DE", "US", "Unknown">>

Before(a, b) ==
  (CHOOSE i \in 1..Len(CountryOrder) : CountryOrder[i] = a)
    <= (CHOOSE i \in 1..Len(CountryOrder) : CountryOrder[i] = b)

\* Object.keys(groups).sort()
RECURSIVE sortKeys(_)
sortKeys(keys) ==
  IF keys = <<>> THEN <<>>
  ELSE LET least == CHOOSE i \in 1..Len(keys) :
                      \A j \in 1..Len(keys) : Before(keys[i], keys[j])
       IN  <<keys[least]>> \o sortKeys(RemoveAt(keys, least))

addSequentialNumbers(validProxyObjects, limitPerCountry) ==
  LET countries == sortKeys(KeysOf(validProxyObjects, LAMBDA proxy : proxy.country))
      groupProxies(country) ==
        SelectSeq(validProxyObjects, LAMBDA proxy : proxy.country = country)
      kept == SelectSeq(countries, LAMBDA c : Len(groupProxies(c)) >= limitPerCountry)
  IN  [all |-> Flat(kept, LAMBDA c : Numbered(groupProxies(c), c)),
       top |-> Flat(kept, LAMBDA c :
                      Numbered(Slice(groupProxies(c), 0, limitPerCountry), c))]

\* CSVProcessor.generateAndSaveResults on the entries of the CSV file
generateAndSaveResults(ipEntries, perCountryCount) ==
  LET groupedKeys == KeysOf(ipEntries, LAMBDA e : e.country)
      grouped(country) == SelectSeq(ipEntries, LAMBDA e : e.country = country)
      minCount == IF perCountryCount > 0 THEN perCountryCount ELSE 1
      filteredCountries ==
        sortKeys(SelectSeq(groupedKeys, LAMBDA c : Len(grouped(c)) >= minCount))
  IN  [all |-> Flat(filteredCountries, LAMBDA c : Numbered(grouped(c), c)),
       top |-> Flat(filteredCountries, LAMBDA c :
                      Numbered(Slice(grouped(c), 0, perCountryCount), c))]

\* nothing written yet
NoOutput == [written |-> FALSE, top |-> <<>>, all |-> <<>>]

Written(lists) == [written |-> TRUE, top |-> lists.top, all |-> lists.all]

ReportIdle == program = "none" /\ probes = <<>> /\ limit = 0 /\ output = NoOutput

\* the inputs of the four programs
ListsOver(S) == UNION {[1..n -> S] : n \in 0..MaxProbes}

VlessProbes ==
  {[i \in 1..Len(l) |-> [ip |-> i, location |-> l[i][1], avgLatency |-> l[i][2]]] :
     l \in ListsOver(Locations \X Latencies)}

TraceProbes == ListsOver([ip : Outbounds, colo : Colos])

CsvEntries ==
  {[i \in 1..Len(l) |-> [ip |-> i, country |-> l[i]]] :
     l \in ListsOver({CountryOrder[c] : c \in 1..Len(CountryOrder)})}

\* main.sh: every endpoint completed, saveResults writes the two lists
SaveResults ==
  /\ program = "main" /\ ~output.written
  /\ output' = Written(saveResultsLists(probes))
  /\ UNCHANGED <<program, probes, limit, proberVars, poolVars, readerVars, encoderVars, loaderVars>>

\* vless_test.js: every endpoint completed, saveResults writes the two lists
SaveResultsInListOrder ==
  /\ program = "test" /\ ~output.written
  /\ output' = Written(saveResultsInListOrder(probes))
  /\ UNCHANGED <<program, probes, limit, proberVars, poolVars, readerVars, encoderVars, loaderVars>>

\* part_000: the objects checkProxy returned, numbered and written by main
TraceReport ==
  /\ program = "trace" /\ ~output.written
  /\ LET verdicts == [i \in 1..Len(probes) |-> checkProxyVerdict(i, probes[i])]
         validProxyObjects == SelectSeq(verdicts, LAMBDA v : v.valid)
     IN  output' = Written(addSequentialNumbers(validProxyObjects, limit))
  /\ UNCHANGED <<program, probes, limit, proberVars, poolVars, readerVars, encoderVars, loaderVars>>

\* ip_tq.js: the CSV processor writes its two files
CsvReport ==
  /\ program = "csv" /\ ~output.written
  /\ output' = Written(generateAndSaveResults(probes, limit))
  /\ UNCHANGED <<program, probes, limit, proberVars, poolVars, readerVars, encoderVars, loaderVars>>

ReportNext == SaveResults \/ SaveResultsInListOrder \/ TraceReport \/ CsvReport

(***************************************************************************)
(* Part VI.  The list loader of src/unnamed/part_000 and the head of       *)
(* checkProxy, which takes the loaded string apart again.  A cell and a    *)
(* list entry are strings, sequences of characters.  The header line of    *)
(* ips.csv names its two columns and the cells carry no quotes or blanks.  *)
(***************************************************************************)
MaxRows == 2

\* 1.1.1.1, ::1, 1::1, x and the empty cell
Addresses ==
  {<<"1", ".", "1", ".", "1", ".", "1">>, <<":", ":", "1">>, <<"1", ":", ":", "1">>,
   <<"x">>, <<>>}

\* 443 and x
Ports == {<<"4", "4", "3">>, <<"x">>}

Count(str, c) == Cardinality({i \in 1..Len(str) : str[i] = c})

\* net.isIP on these cells: 4 for a dotted quad, 6 for hexadecimal groups
\* between colons, 0 otherwise
isIP(ip) ==
  IF ip # <<>> /\ Count(ip, ".") = 3
       /\ \A i \in 1..Len(ip) : ip[i] = "." \/ IsDigit(ip[i], 10)
  THEN 4
  ELSE IF ip # <<>> /\ Count(ip, ":") \in 2..7
            /\ \A i \in 1..Len(ip) : ip[i] = ":" \/ IsDigit(ip[i], 16)
       THEN 6
       ELSE 0

\* the loop of readIpsCsv over the data rows
RECURSIVE readIpsCsv(_)
readIpsCsv(rows) ==
  IF rows = <<>> THEN <<>>
  ELSE LET ip   == Head(rows).ip
           port == Head(rows).port
       IN  (IF ip # <<>> /\ port # <<>> /\ isIP(ip) # 0 /\ parseInt(port, 10) # NaN
            THEN <<ip \o <<":">> \o port>>
            ELSE <<>>) \o readIpsCsv(Tail(rows))

\* String.prototype.split with a separator of one character
RECURSIVE split(_, _)
split(str, sep) ==
  LET i == IndexOf(str, <<sep>>, 0)
  IN  IF i = -1 THEN <<str>>
      ELSE <<Slice(str, 0, i)>> \o split(Slice(str, i + 1, Len(str)), sep)

\* checkProxy up to its first await: null when the address does not split in
\* two at ":", otherwise getConnectionWithTimeout(ip, port, true)
checkProxyHead(proxyAddress) ==
  LET parts == split(proxyAddress, ":")
  IN  IF Len(parts) # 2
      THEN [address |-> proxyAddress, acquire |-> FALSE, ip |-> <<>>, port |-> NaN]
      ELSE [address |-> proxyAddress, acquire |-> TRUE,
            ip |-> parts[1], port |-> parseInt(parts[2], 10)]

\* the data rows of ips.csv
CsvFiles ==
  UNION {[1..n -> [ip : Addresses, port : Ports]] : n \in 0..MaxRows}

NoLoader == [stage |-> "init", proxyList |-> <<>>, calls |-> <<>>]

LoaderIdle == csv = <<>> /\ loader = NoLoader

\* main: proxyAddresses = await readIpsCsv()
ReadIpsCsv ==
  /\ loader.stage = "init"
  /\ loader' = [loader EXCEPT !.stage = "loaded", !.proxyList = readIpsCsv(csv)]
  /\ UNCHANGED <<csv, proberVars, poolVars, readerVars, encoderVars, reportVars>>

\* a worker of processBatch calls checkProxy on the next entry of the list
CheckProxy ==
  /\ loader.stage = "loaded"
  /\ Len(loader.calls) < Len(loader.proxyList)
  /\ loader' = [loader EXCEPT
                  !.calls = Append(@, checkProxyHead(loader.proxyList[Len(@) + 1]))]
  /\ UNCHANGED <<csv, proberVars, poolVars, readerVars, encoderVars, reportVars>>

LoaderNext == ReadIpsCsv \/ CheckProxy

(***************************************************************************)
(* The specifications: one per program.  The other program's variables     *)
(* stay at their initial values.                                           *)
(***************************************************************************)
vars == <<proberVars, poolVars, readerVars, encoderVars, reportVars, loaderVars>>

Init ==
  /\ MAX_CONCURRENT \in 1..MaxConcurrency
  /\ ipPortList \in IpPortLists
  /\ started = FALSE
  /\ testResults = [k \in Keys |-> NewResult]
  /\ completedTests = 0
  /\ activeConnections = 0
  /\ nextTestIndex = 0
  /\ attempts = <<>>
  /\ retryTimers = <<>>
  /\ exited = FALSE
  /\ saveCount = 0
  /\ passed = {}
  /\ items = <<>>
  /\ script = "part_000"
  /\ locations = "ok"
  /\ phase = "init"
  /\ currentIndex = 0
  /\ completed = 0
  /\ results = <<>>
  /\ outcome = <<>>
  /\ workers = [w \in Workers |-> NoWorker]
  /\ sockets = <<>>
  /\ connections = <<>>
  /\ stats = NoStats
  /\ relConn = [k \in Keys |-> 0]
  /\ acqObs = NoObs
  /\ response = NoResponse
  /\ arrived = 0
  /\ sockState = "open"
  /\ reader = NoReader
  /\ EncoderIdle
  /\ LoaderIdle
  /\ ReportIdle

Next == ProberNext

\* the multi-round prober
Spec == Init /\ [][Next]_vars

PoolInit ==
  /\ items \in ProxyLists
  /\ script = "part_000"
  /\ locations = "ok"
  /\ phase = "init"
  /\ currentIndex = 0
  /\ completed = 0
  /\ results = <<>>
  /\ outcome = [i \in 1..Len(items) |-> "pending"]
  /\ workers = [w \in Workers |-> NoWorker]
  /\ sockets = <<>>
  /\ connections = <<>>
  /\ stats = NoStats
  /\ relConn = [k \in Keys |-> 0]
  /\ acqObs = NoObs
  /\ MAX_CONCURRENT = 1
  /\ ipPortList = <<>>
  /\ started = FALSE
  /\ testResults = [k \in Keys |-> NewResult]
  /\ completedTests = 0
  /\ activeConnections = 0
  /\ nextTestIndex = 0
  /\ attempts = <<>>
  /\ retryTimers = <<>>
  /\ exited = FALSE
  /\ saveCount = 0
  /\ passed = {}
  /\ response = NoResponse
  /\ arrived = 0
  /\ sockState = "open"
  /\ reader = NoReader
  /\ EncoderIdle
  /\ LoaderIdle
  /\ ReportIdle

\* the trace prober
PoolSpec == PoolInit /\ [][PoolNext]_vars

\* the timers a busy worker waits on: socket.setTimeout(TCP_TIMEOUT_MS) and the
\* TLS timeout, the timer of getConnectionWithTimeout, the timer of
\* sendHttpRequest.  The runtime fires a timer that stays armed.
TimerFires(w) ==
  \/ workers[w].pc = "acquire" /\ AcquireFails(workers[w].sock, "timeout")
  \/ AcquireTimeout(w)
  \/ ExchangeRejects(w, "timeout")

\* the single-round schedulers on the same lists
SchedulerSpec == PoolInit /\ [][SchedulerNext]_vars

StartupInit ==
  /\ items \in ProxyLists
  /\ script \in {"part_000", "iptest"}
  /\ locations \in {"ok", "missing", "malformed"}
  /\ phase = "init"
  /\ currentIndex = 0
  /\ completed = 0
  /\ results = <<>>
  /\ outcome = [i \in 1..Len(items) |-> "pending"]
  /\ workers = [w \in Workers |-> NoWorker]
  /\ sockets = <<>>
  /\ connections = <<>>
  /\ stats = NoStats
  /\ relConn = [k \in Keys |-> 0]
  /\ acqObs = NoObs
  /\ MAX_CONCURRENT = 1
  /\ ipPortList = <<>>
  /\ started = FALSE
  /\ testResults = [k \in Keys |-> NewResult]
  /\ completedTests = 0
  /\ activeConnections = 0
  /\ nextTestIndex = 0
  /\ attempts = <<>>
  /\ retryTimers = <<>>
  /\ exited = FALSE
  /\ saveCount = 0
  /\ passed = {}
  /\ response = NoResponse
  /\ arrived = 0
  /\ sockState = "open"
  /\ reader = NoReader
  /\ EncoderIdle
  /\ LoaderIdle
  /\ ReportIdle

\* the two copies of the trace prober, from their start
StartupSpec == StartupInit /\ [][PoolNext]_vars

\* the trace prober with its timers firing
FairPoolSpec == PoolSpec /\ \A w \in Workers : WF_vars(TimerFires(w))

RoundTripInit ==
  /\ response \in ChunkedResponses(MaxBody)
  /\ arrived = 0
  /\ sockState = "open"
  /\ reader = NoReader
  /\ MAX_CONCURRENT = 1
  /\ ipPortList = <<>>
  /\ started = FALSE
  /\ testResults = [k \in Keys |-> NewResult]
  /\ completedTests = 0
  /\ activeConnections = 0
  /\ nextTestIndex = 0
  /\ attempts = <<>>
  /\ retryTimers = <<>>
  /\ exited = FALSE
  /\ saveCount = 0
  /\ passed = {}
  /\ items = <<>>
  /\ script = "part_000"
  /\ locations = "ok"
  /\ phase = "init"
  /\ currentIndex = 0
  /\ completed = 0
  /\ results = <<>>
  /\ outcome = <<>>
  /\ workers = [w \in Workers |-> NoWorker]
  /\ sockets = <<>>
  /\ connections = <<>>
  /\ stats = NoStats
  /\ relConn = [k \in Keys |-> 0]
  /\ acqObs = NoObs
  /\ EncoderIdle
  /\ LoaderIdle
  /\ ReportIdle

\* sendHttpRequest reading a chunked response from a socket that stays open
RoundTripSpec == RoundTripInit /\ [][RoundTripNext]_vars

ReaderInit ==
  /\ response \in ChunkedResponses(MaxLength) \cup LengthResponses(MaxLength)
                    \cup PlainResponses(MaxLength)
  /\ arrived = 0
  /\ sockState = "open"
  /\ reader = NoReader
  /\ MAX_CONCURRENT = 1
  /\ ipPortList = <<>>
  /\ started = FALSE
  /\ testResults = [k \in Keys |-> NewResult]
  /\ completedTests = 0
  /\ activeConnections = 0
  /\ nextTestIndex = 0
  /\ attempts = <<>>
  /\ retryTimers = <<>>
  /\ exited = FALSE
  /\ saveCount = 0
  /\ passed = {}
  /\ items = <<>>
  /\ script = "part_000"
  /\ locations = "ok"
  /\ phase = "init"
  /\ currentIndex = 0
  /\ completed = 0
  /\ results = <<>>
  /\ outcome = <<>>
  /\ workers = [w \in Workers |-> NoWorker]
  /\ sockets = <<>>
  /\ connections = <<>>
  /\ stats = NoStats
  /\ relConn = [k \in Keys |-> 0]
  /\ acqObs = NoObs
  /\ EncoderIdle
  /\ LoaderIdle
  /\ ReportIdle

EncoderInit ==
  /\ uuid \in Uuids
  /\ ReportIdle
  /\ LoaderIdle
  /\ request = NoRequest
  /\ MAX_CONCURRENT = 1
  /\ ipPortList = <<>>
  /\ started = FALSE
  /\ testResults = [k \in Keys |-> NewResult]
  /\ completedTests = 0
  /\ activeConnections = 0
  /\ nextTestIndex = 0
  /\ attempts = <<>>
  /\ retryTimers = <<>>
  /\ exited = FALSE
  /\ saveCount = 0
  /\ passed = {}
  /\ items = <<>>
  /\ script = "part_000"
  /\ locations = "ok"
  /\ phase = "init"
  /\ currentIndex = 0
  /\ completed = 0
  /\ results = <<>>
  /\ outcome = <<>>
  /\ workers = [w \in Workers |-> NoWorker]
  /\ sockets = <<>>
  /\ connections = <<>>
  /\ stats = NoStats
  /\ relConn = [k \in Keys |-> 0]
  /\ acqObs = NoObs
  /\ response = NoResponse
  /\ arrived = 0
  /\ sockState = "open"
  /\ reader = NoReader

\* the handshake encoders applied to a configured UUID
EncoderSpec == EncoderInit /\ [][EncoderNext]_vars

LoaderInit ==
  /\ csv \in CsvFiles
  /\ loader = NoLoader
  /\ EncoderIdle
  /\ ReportIdle
  /\ MAX_CONCURRENT = 1
  /\ ipPortList = <<>>
  /\ started = FALSE
  /\ testResults = [k \in Keys |-> NewResult]
  /\ completedTests = 0
  /\ activeConnections = 0
  /\ nextTestIndex = 0
  /\ attempts = <<>>
  /\ retryTimers = <<>>
  /\ exited = FALSE
  /\ saveCount = 0
  /\ passed = {}
  /\ items = <<>>
  /\ script = "part_000"
  /\ locations = "ok"
  /\ phase = "init"
  /\ currentIndex = 0
  /\ completed = 0
  /\ results = <<>>
  /\ outcome = <<>>
  /\ workers = [w \in Workers |-> NoWorker]
  /\ sockets = <<>>
  /\ connections = <<>>
  /\ stats = NoStats
  /\ relConn = [k \in Keys |-> 0]
  /\ acqObs = NoObs
  /\ response = NoResponse
  /\ arrived = 0
  /\ sockState = "open"
  /\ reader = NoReader

\* the list loader and the first step of checkProxy on what it loaded
LoaderSpec == LoaderInit /\ [][LoaderNext]_vars

ReportInit ==
  /\ program \in {"main", "test", "trace", "csv"}
  /\ probes \in (CASE program \in {"main", "test"} -> VlessProbes
                   [] program = "trace" -> TraceProbes
                   [] program = "csv" -> CsvEntries)
  /\ limit \in (CASE program \in {"main", "test"} -> {Top5}
                  [] program = "trace" -> {LIMIT_PER_COUNTRY}
                  [] program = "csv" -> 0..LIMIT_PER_COUNTRY)
  /\ output = NoOutput
  /\ EncoderIdle
  /\ LoaderIdle
  /\ MAX_CONCURRENT = 1
  /\ ipPortList = <<>>
  /\ started = FALSE
  /\ testResults = [k \in Keys |-> NewResult]
  /\ completedTests = 0
  /\ activeConnections = 0
  /\ nextTestIndex = 0
  /\ attempts = <<>>
  /\ retryTimers = <<>>
  /\ exited = FALSE
  /\ saveCount = 0
  /\ passed = {}
  /\ items = <<>>
  /\ script = "part_000"
  /\ locations = "ok"
  /\ phase = "init"
  /\ currentIndex = 0
  /\ completed = 0
  /\ results = <<>>
  /\ outcome = <<>>
  /\ workers = [w \in Workers |-> NoWorker]
  /\ sockets = <<>>
  /\ connections = <<>>
  /\ stats = NoStats
  /\ relConn = [k \in Keys |-> 0]
  /\ acqObs = NoObs
  /\ response = NoResponse
  /\ arrived = 0
  /\ sockState = "open"
  /\ reader = NoReader

\* the four programs writing their lists
ReportSpec == ReportInit /\ [][ReportNext]_vars

\* sendHttpRequest with everything its socket and its timer can do
ReaderSpec == ReaderInit /\ [][ReaderNext]_vars

\* sendHttpRequest with its timer firing
FairReaderSpec == ReaderSpec /\ WF_vars(RequestTimeout)

(***************************************************************************)
(* Part I: the claims about the multi-round prober.                        *)
(***************************************************************************)
AttemptIds == DOMAIN attempts

\* attempts started and not yet completed
InFlight == {a \in AttemptIds : attempts[a].calls = 0}

InFlightOf(k) == {a \in InFlight : attempts[a].key = k}

ListKeys == {ipPortList[i] : i \in 1..Len(ipPortList)}

\* C1: at every instant the number of attempts started and not yet
\* completed is at most MAX_CONCURRENT, follow-up rounds included.
C1_InFlightWithinLimit == Cardinality(InFlight) <= MAX_CONCURRENT

\* C2: handleTestCompletion is invoked exactly once per attempt; as a
\* property of every reachable state: never more than once.
C2_CompletedAtMostOnce == \A a \in AttemptIds : attempts[a].calls <= 1

\* C3: per ip:port key at most one attempt is in flight, no round of a key
\* is started twice, and round r + 1 starts only after round r completed.
C3_RoundsSequential ==
  \A k \in Keys :
    /\ Cardinality(InFlightOf(k)) <= 1
    /\ \A a, b \in AttemptIds :
         (a # b /\ attempts[a].key = k /\ attempts[b].key = k)
            => attempts[a].round # attempts[b].round
    /\ \A a \in AttemptIds :
         (attempts[a].key = k /\ attempts[a].round > 1)
            => \E b \in AttemptIds : /\ attempts[b].key = k
                                     /\ attempts[b].round = attempts[a].round - 1
                                     /\ attempts[b].calls > 0

\* C4: saveResults runs at most once, and only when every endpoint of the
\* list has exactly TESTS_PER_IP recorded attempts.
C4_FinalizeOnceWhenAllDone ==
  /\ saveCount <= 1
  /\ saveCount = 1 =>
       \A k \in ListKeys :
         testResults[k].successes + testResults[k].failures = TESTS_PER_IP

\* no timer is pending and no socket can deliver an event any more
Quiescent ==
  /\ started
  /\ retryTimers = <<>>
  /\ \A a \in AttemptIds : ~attempts[a].timer /\ attempts[a].ws = "closed"

\* C5: a run over a non-empty list never comes to rest short of finalize:
\* when nothing is pending any more, saveResults has run and the process
\* has exited.
C5_NoRestBeforeFinalize ==
  (Len(ipPortList) > 0 /\ Quiescent) => (exited /\ saveCount = 1)

AttemptsOf(k, o) == {a \in AttemptIds : attempts[a].key = k /\ attempts[a].outcome = o}

\* C6: at finalize an endpoint is in the all output iff TESTS_PER_IP of its
\* attempts succeeded and none failed.
C6_PassedIffAllSucceeded ==
  saveCount = 1 =>
    \A k \in ListKeys :
      k \in passed <=> /\ Cardinality(AttemptsOf(k, "ok")) = TESTS_PER_IP
                       /\ AttemptsOf(k, "fail") = {}

\* C20: an attempt is recorded as a success only if its first inbound message
\* had 0 at offset 1; an attempt whose first inbound message had another
\* value there is, once recorded, recorded as a failure.
C20_FirstMessageDecides ==
  \A a \in AttemptIds :
    /\ attempts[a].outcome = "ok" => attempts[a].first = "zero"
    /\ (attempts[a].first = "other" /\ attempts[a].calls > 0) => attempts[a].outcome = "fail"

(***************************************************************************)
(* Part II: the claims about the trace prober and its pool.                *)
(***************************************************************************)
ItemIds == 1..Len(items)

Busy(w) == workers[w].pc \in {"acquire", "exchange"}

\* worker w runs the attempt on item i
Runs(w, i) == Busy(w) /\ workers[w].item = i

\* after item i, worker w is on the next item of the list or, the list
\* exhausted, has left its loop
MovedOn(w, i) ==
  IF currentIndex < Len(items)
  THEN workers'[w].pc \in {"acquire", "exchange"} /\ workers'[w].item = currentIndex + 1
  ELSE workers'[w].pc = "finished"

\* this step turns an error inside the attempt on item i into its outcome
FailsNow(i) == outcome[i] = "pending" /\ outcome'[i] = "error"

\* C7: an error raised inside one probe attempt becomes a failed outcome of
\* that endpoint only: the step counts the item, leaves every other outcome,
\* every other worker and the connection of every other busy worker as they
\* were, and sends the worker on to the next endpoint; and the batch ends only
\* with every endpoint processed.
C7_ErrorsStayLocal ==
  [][ /\ \A i \in ItemIds :
           FailsNow(i) =>
             /\ completed' = completed + 1
             /\ \A j \in ItemIds \ {i} : outcome'[j] = outcome[j]
             /\ \E w \in Workers :
                  /\ Runs(w, i)
                  /\ MovedOn(w, i)
                  /\ \A v \in Workers \ {w} :
                       /\ workers'[v] = workers[v]
                       /\ Busy(v) => sockets'[workers[v].sock].destroyed
                                        = sockets[workers[v].sock].destroyed
      /\ phase' = "done" => \A j \in ItemIds : outcome'[j] # "pending"
    ]_vars

\* an early endpoint failed and the later ones were probed to the end
C7_Witness ==
  /\ phase = "done"
  /\ Len(items) = MaxItems
  /\ outcome[1] = "error"
  /\ \A j \in 2..MaxItems : outcome[j] = "valid"

\* the socket of worker w's attempt is waiting for its TCP connect
Connecting(w) == workers[w].pc = "acquire" /\ sockets[workers[w].sock].stage = "tcp"

\* this step is the timeout event of worker w's connecting socket
ConnectTimesOut(w) ==
  /\ Connecting(w)
  /\ sockets'[workers[w].sock].stage = "tcpFailed"
  /\ ~sockets'[workers[w].sock].destroyed

\* C8: an attempt whose peer never completes the TCP connect completes as a
\* failure when its timeout fires, and its worker then takes the next endpoint
\* (or leaves its loop at the end of the list); and no attempt keeps its
\* worker forever: a batch that has started comes to its end, which it does
\* only when every worker has left its last attempt.
C8_SilentPeerTimesOut ==
  /\ [][ \A w \in Workers :
           ConnectTimesOut(w) =>
             /\ outcome'[workers[w].item] = "error"
             /\ MovedOn(w, workers[w].item)
       ]_vars
  /\ (phase = "batch") ~> (phase = "done")

\* the first endpoint never connected, timed out, and its worker took the
\* endpoint after the second worker's
C8_Witness ==
  /\ Len(sockets) > 0
  /\ sockets[1].stage = "tcpFailed"
  /\ ~sockets[1].destroyed
  /\ outcome[1] = "error"
  /\ Busy(1)
  /\ workers[1].item = 3

\* C9: no two probes that are both between acquire and release use the
\* same pooled connection.
C9_ConnectionNotShared ==
  \A v, w \in Workers :
    (v # w /\ workers[v].pc = "exchange" /\ workers[w].pc = "exchange")
       => workers[v].sock # workers[w].sock

\* C10: the acquire that follows the release of a connection c that has not
\* been destroyed returns c, counts a hit and opens no socket.
C10_ReleasedConnectionReused ==
  acqObs.expected # 0 =>
    /\ acqObs.returned = acqObs.expected
    /\ acqObs.hit
    /\ ~acqObs.opened

\* the connection objects in the pool, by their socket
Pooled(conns) == {conns[i].sock : i \in DOMAIN conns}

\* the acquire that opened socket s has failed: its TCP connect or its TLS
\* upgrade rejected, or the timer of getConnectionWithTimeout won the race
\* while the upgrade was pending
AcquireFailed(s) ==
  \/ sockets[s].stage \in {"tcpFailed", "tlsFailed"}
  \/ sockets[s].stage = "tls" /\ sockets[s].owner = 0

\* C11: a failed acquire leaves no entry in the pool: the connection of an
\* acquire that failed at the TCP connect, at the TLS upgrade or by the
\* acquisition timeout is not in the pool and no later step puts it there;
\* and every entry is a connection whose connect and TLS upgrade succeeded.
C11_FailedAcquireLeavesNoEntry ==
  /\ [](\A s \in DOMAIN sockets :
          /\ AcquireFailed(s) => s \notin Pooled(connections)
          /\ s \in Pooled(connections) => sockets[s].stage = "ready")
  /\ [][ \A s \in DOMAIN sockets :
           AcquireFailed(s) => s \notin Pooled(connections')
       ]_vars

\* this step is the rejection of worker w's sendHttpRequest
ExchangeFails(w) ==
  /\ workers[w].pc = "exchange"
  /\ outcome[workers[w].item] = "pending"
  /\ outcome'[workers[w].item] = "error"

\* C12: the connection on which an exchange failed is destroyed and out of
\* the pool when the failed probe has returned, and no worker holds it for a
\* later item.
C12_FailedConnectionDestroyed ==
  [][ \A w \in Workers :
        ExchangeFails(w) =>
          /\ sockets'[workers[w].sock].destroyed
          /\ workers[w].sock \notin Pooled(connections')
          /\ \A v \in Workers :
               (workers'[v].pc = "exchange" /\ workers'[v].sock = workers[w].sock)
                  => workers'[v] = workers[v]
    ]_vars

\* C13: when destroy() has returned, the pool holds no entry.
C13_ShutdownEmptiesPool ==
  phase = "done" => connections = <<>>

\* C14: the pool never holds more than maxPoolSize connections.
C14_PoolWithinCap == Len(connections) <= maxPoolSize

\* more connections were made than the pool holds, the pool is full, and a
\* connection that was not idle has been closed under a worker's exchange
C14_Witness ==
  /\ stats.created > maxPoolSize
  /\ Len(connections) = maxPoolSize
  /\ stats.closed > 0
  /\ \E w \in Workers :
       /\ workers[w].pc = "exchange"
       /\ sockets[workers[w].sock].destroyed
       /\ workers[w].sock \notin Pooled(connections)
       /\ \A i \in DOMAIN connections : connections[i].key # items[workers[w].item]

\* this step removes the entry at position i although it is not idle: it is
\* evicted because the pool is over its cap
EvictedForOverflow(i) ==
  /\ connections[i].age <= maxIdleTime
  /\ \A j \in DOMAIN connections' : connections'[j].key # connections[i].key

\* C15: an entry evicted for overflow is at least as long unused as every
\* entry that is kept.
C15_OverflowEvictsOldest ==
  [][ \A i \in DOMAIN connections :
        EvictedForOverflow(i) =>
          \A j \in DOMAIN connections' : connections'[j].age <= connections[i].age
    ]_vars

\* C16: release(ip, port) in any state of the pool, for any key: the Map
\* keeps its keys, their order and their connection objects, every socket
\* stays as it was, no counter moves, nothing outside the pool changes; the
\* entry of the key has lastUsed = now and every other entry its own; with
\* the key absent nothing changes at all.
C16_ReleaseOnlyTouchesLastUsed ==
  \A k \in Keys :
    LET q   == release(Pool, k)
        pos == PosOf(connections, k)
    IN  /\ q.sockets = sockets
        /\ q.stats = stats
        /\ [q EXCEPT !.connections = connections] = Pool
        /\ DOMAIN q.connections = DOMAIN connections
        /\ \A i \in DOMAIN connections :
             /\ q.connections[i].key = connections[i].key
             /\ q.connections[i].sock = connections[i].sock
             /\ q.connections[i].age = IF i = pos THEN 0 ELSE connections[i].age
        /\ pos = 0 => q = Pool

\* a probe has released its connection: the entry is there, open, just used
C16_Witness ==
  \E k \in Keys :
    /\ relConn[k] # 0
    /\ PosOf(connections, k) # 0
    /\ connections[PosOf(connections, k)].sock = relConn[k]
    /\ connections[PosOf(connections, k)].age = 0
    /\ ~sockets[relConn[k]].destroyed
    /\ stats.closed = 0

(***************************************************************************)
(* Part III: the claims about sendHttpRequest.                             *)
(***************************************************************************)
Settled == reader.state \in {"resolved", "rejected"}

\* the body of the response as a string
BodySent == toString(Concat(response.chunks))

\* C17: a body cut into chunks, encoded as chunked transfer and delivered in
\* any segmentation comes out of the reader as that body: the reader
\* resolves with nothing else, and has resolved once the whole stream has
\* arrived.
C17_ChunkedRoundTrip ==
  response.framing = "chunked" =>
    /\ reader.state = "resolved" => reader.body = BodySent
    /\ (reader.listening /\ arrived = Len(Wire(response))) => reader.state = "resolved"

\* body elements of the response that the reader's onData has been given
BodyRead == Len(reader.buffer) - Len(Header(response))

\* C18: with a success status and a declared Content-Length N >= 0 the
\* reader has resolved as soon as its onData has been given N body bytes,
\* not before, and the resolved body is the first N bytes after the header
\* terminator.
C18_ContentLengthBody ==
  (response.status = "S200" /\ response.framing = "length") =>
    /\ (reader.state = "pending" /\ Len(reader.buffer) >= Len(Header(response)))
          => BodyRead < response.declared
    /\ reader.state = "resolved" =>
          /\ BodyRead >= response.declared
          /\ reader.body = toString(Slice(Concat(response.chunks), 0, response.declared))

\* C19: resolve and reject are called once per exchange at most and once the
\* exchange is over; a resolved exchange has a body and no reason, a rejected
\* one has one reason; the timer gives "timeout", the error event "socket",
\* the close event "closed", a status line that is not 200 "status"; after
\* the settlement no event changes the closure or the promise; and a pending
\* exchange settles.
C19_SettlesExactlyOnce ==
  /\ [](/\ reader.settles = (IF Settled THEN 1 ELSE 0)
        /\ reader.state = "resolved" => reader.reason = "none"
        /\ reader.state = "rejected" =>
             /\ reader.reason \in {"timeout", "socket", "closed", "status"}
             /\ reader.body = <<>>
        /\ Settled => ~reader.listening /\ ~reader.timer)
  /\ [][ /\ (reader.state = "pending" /\ reader'.state = "rejected") =>
              /\ reader'.reason = "timeout" <=> (arrived' = arrived /\ sockState' = sockState)
              /\ reader'.reason = "socket" <=> (sockState = "open" /\ sockState' = "errored")
              /\ reader'.reason = "closed" <=> (sockState # "closed" /\ sockState' = "closed")
              /\ reader'.reason = "status" <=> arrived' > arrived
         /\ Settled => reader' = reader
       ]_vars
  /\ (reader.state = "pending") ~> Settled

\* the timer rejected the exchange in the middle of the response; the rest
\* of the response and the close of the socket came after it
C19_Witness ==
  /\ reader.state = "rejected"
  /\ reader.reason = "timeout"
  /\ Len(reader.buffer) > Len(Header(response))
  /\ Len(reader.buffer) < arrived
  /\ arrived = Len(Wire(response))
  /\ sockState = "closed"

(***************************************************************************)
(* Part IV claims: the handshake encoders.                                 *)
(***************************************************************************)

\* the place of the k-th hexadecimal digit in the 8-4-4-4-12 form
DigitAt(k) ==
  k + (IF k > 8 THEN 1 ELSE 0) + (IF k > 12 THEN 1 ELSE 0)
    + (IF k > 16 THEN 1 ELSE 0) + (IF k > 20 THEN 1 ELSE 0)

\* the b-th byte a UUID in the 8-4-4-4-12 form denotes
UuidByte(id, b) ==
  16 * HexValue(id[DigitAt(2 * b - 1)]) + HexValue(id[DigitAt(2 * b)])

\* C21: a handshake an encoder returned has the layout: byte 0 is the
\* version 0, bytes 1-16 are the 16 bytes of the configured UUID in order,
\* byte 17 is the addon length 0, bytes 18-19 are the target port 80 with its
\* high byte first, byte 20 is the address type, and the address follows: 4
\* bytes for type 1 (IPv4), one length byte and that many bytes for type 2
\* (domain name); the whole is 21 bytes plus the encoded address.
C21_HandshakeLayout ==
  request # NoRequest =>
    /\ Len(request) > 21
    /\ request[1] = 0
    /\ \A b \in 1..16 : request[1 + b] = UuidByte(uuid, b)
    /\ request[18] = 0
    /\ request[19] * 256 + request[20] = 80
    /\ request[21] \in {1, 2}
    /\ request[21] = 1 => Len(request) = 21 + 4
    /\ request[21] = 2 => Len(request) = 21 + 1 + request[22]
    /\ \A i \in 1..Len(request) : request[i] \in 0..255

\* a domain handshake was built for a UUID other than the shipped one
C21_Witness ==
  /\ request # NoRequest
  /\ request[21] = 2
  /\ request[22] = Len(targetHost)
  /\ uuid # ConfiguredUuid
  /\ \E b \in 1..16 : request[1 + b] = 250

(***************************************************************************)
(* Part V claims: the reports.                                             *)
(***************************************************************************)

\* the lines of a list that carry country c, in the order of the list
GroupOf(list, c) == SelectSeq(list, LAMBDA e : e.country = c)

CountriesOf(list) == {list[i].country : i \in 1..Len(list)}

\* what the trace prober and the CSV processor have to report, by country
Members ==
  IF program = "trace"
  THEN SelectSeq([i \in 1..Len(probes) |-> checkProxyVerdict(i, probes[i])],
                 LAMBDA v : v.valid)
  ELSE probes

Emitted(list, ip) == \E i \in 1..Len(list) : list[i].ip = ip

\* C22: in the reports of the trace prober and of the CSV processor, a
\* country with fewer members than the configured minimum has none of its
\* members in the top list and all of them in the all list.
C22_SmallGroupsOnlyInAll ==
  (output.written /\ program \in {"trace", "csv"}) =>
    \A c \in CountriesOf(Members) :
      Len(GroupOf(Members, c)) < limit =>
        /\ GroupOf(output.top, c) = <<>>
        /\ \A i \in 1..Len(Members) :
             Members[i].country = c => Emitted(output.all, Members[i].ip)

NonDecreasing(list) ==
  \A i, j \in 1..Len(list) : i < j => list[i].latency <= list[j].latency

\* C23: in the top and the all list the VLESS probers write, the lines of a
\* country follow each other in non-decreasing latency.
C23_GroupsOrderedByLatency ==
  (output.written /\ program \in {"main", "test"}) =>
    \A c \in CountriesOf(output.all) :
      NonDecreasing(GroupOf(output.all, c)) /\ NonDecreasing(GroupOf(output.top, c))

\* C24: a written top list has at most the configured number of lines of
\* any one country.
C24_TopWithinCap ==
  output.written =>
    \A c \in CountriesOf(output.top) : Len(GroupOf(output.top, c)) <= limit

\* a country with more members than the cap, cut to the cap in the top list
C24_Witness ==
  /\ output.written
  /\ limit > 0
  /\ \E c \in CountriesOf(output.all) :
       /\ Len(GroupOf(output.all, c)) > limit
       /\ Len(GroupOf(output.top, c)) = limit

\* C25: in a written list the numbers after a country are 1, 2, ..., k in the
\* order of the lines, whatever number the location ended in.
C25_RanksAreOneToK ==
  output.written =>
    \A list \in {output.top, output.all} :
      \A c \in CountriesOf(list) :
        \A i \in 1..Len(GroupOf(list, c)) : GroupOf(list, c)[i].rank = i

\* a VLESS prober wrote two lines of a country, the second for a location
\* that ended in 1
C25_Witness ==
  /\ output.written
  /\ program \in {"main", "test"}
  /\ \E i \in 1..Len(output.top) :
       /\ output.top[i].rank = 2
       /\ probes[output.top[i].ip].location = <<"A", "1">>

\* C26: a probe whose trace names no datacenter, or one the table does not
\* have, is in neither list of the trace prober.
C26_UnresolvedNeverListed ==
  (output.written /\ program = "trace") =>
    \A i \in 1..Len(probes) :
      (probes[i].colo = "none" \/ ~has(coloMap, probes[i].colo)) =>
        ~Emitted(output.top, i) /\ ~Emitted(output.all, i)

\* lists were written next to a complete exchange with an unknown datacenter
C26_Witness ==
  /\ output.written
  /\ program = "trace"
  /\ output.all # <<>>
  /\ \E i \in 1..Len(probes) : probes[i].ip = "ipv4" /\ probes[i].colo = "XXX"

(***************************************************************************)
(* Part II claims, continued: the schedulers, the start of the trace       *)
(* prober and the connections in use.                                      *)
(***************************************************************************)

\* C27: at no instant do processBatch or testIPs have more processor calls in
\* flight than the configured concurrency.
C27_WithinConcurrency ==
  /\ Cardinality({w \in Workers : Busy(w)}) <= CONCURRENCY_LIMIT
  /\ Cardinality({i \in ItemIds : outcome[i] = "active"}) <= CONCURRENCY_LIMIT

\* processBatch has as many calls in flight as it may and an item waiting
C27_Witness ==
  /\ phase = "batch"
  /\ Cardinality({w \in Workers : Busy(w)}) = CONCURRENCY_LIMIT
  /\ currentIndex < Len(items)

\* the process has ended: process.exit was called (a main that returns leaves
\* the interval of startCleanupTimer armed, which keeps the process alive)
ProcessEnded == phase \in {"done", "exit1"}

NothingDispatched == currentIndex = 0 /\ sockets = <<>> /\ completed = 0

\* C28: with an empty endpoint list the run ends, the process terminating,
\* and no probe is dispatched.
C28_EmptyListEndsRun ==
  (Len(items) = 0 /\ phase # "init") => ProcessEnded /\ NothingDispatched

\* C29: with a geo table that cannot be parsed the run aborts with a non-zero
\* exit before any probe is dispatched.
C29_BadGeoTableAborts ==
  (Len(items) > 0 /\ locations = "malformed" /\ phase # "init") =>
    phase = "exit1" /\ NothingDispatched

\* C30: no step of the pool, overflow eviction or idle cleanup, removes and
\* destroys the connection a probe has acquired and not yet released.
C30_CheckedOutNeverDestroyed ==
  [][ \A w \in Workers :
        ( /\ workers[w].pc = "exchange"
          /\ workers[w].sock \in Pooled(connections)
          /\ ~sockets[workers[w].sock].destroyed )
        => ~( /\ sockets'[workers[w].sock].destroyed
              /\ workers[w].sock \notin Pooled(connections') )
    ]_vars

\* the acquire that opened socket s is over: it failed or it set its entry
AcquireOver(s) == sockets[s].stage \in {"tcpFailed", "tlsFailed", "ready"}

\* C31: a socket the pool opened and is done acquiring is referenced by a pool
\* entry or destroyed: none stays open outside the pool.
C31_NoSocketOutsidePool ==
  \A s \in DOMAIN sockets :
    AcquireOver(s) => (s \in Pooled(connections) \/ sockets[s].destroyed)

(***************************************************************************)
(* Part I claims, continued: lists with repeated lines and the counters.   *)
(***************************************************************************)
\* some ip:port stands on more than one line of the list
RepeatedLine ==
  \E i, j \in 1..Len(ipPortList) : i # j /\ ipPortList[i] = ipPortList[j]

\* C32: with the same ip:port on more than one line no key has two attempts
\* in flight at once, and a run that has come to rest counted
\* ipPortList.length * TESTS_PER_IP completions and finalized.
C32_RepeatedLinesFinish ==
  RepeatedLine =>
    /\ \A k \in ListKeys : Cardinality(InFlightOf(k)) <= 1
    /\ Quiescent => /\ completedTests = Len(ipPortList) * TESTS_PER_IP
                    /\ saveCount = 1
                    /\ exited

\* C33: every endpoint record holds at most TESTS_PER_IP recorded attempts,
\* and completedTests is at most ipPortList.length * TESTS_PER_IP.
C33_CountersWithinRounds ==
  /\ \A k \in ListKeys :
       testResults[k].successes + testResults[k].failures <= TESTS_PER_IP
  /\ completedTests <= Len(ipPortList) * TESTS_PER_IP

\* C39: activeConnections equals the number of attempts started and not yet
\* completed; in particular it is never negative.
C39_ActiveCountsInFlight ==
  /\ activeConnections = Cardinality(InFlight)
  /\ activeConnections >= 0

(***************************************************************************)
(* Part II claims, continued: one processor call per item.                 *)
(***************************************************************************)
\* the processor's promise for item i has settled and the scheduler counted it
Counted(i) == outcome[i] \in {"valid", "null", "error"}

\* the processor call for item i is in flight
Processing(i) == outcome[i] = "active" \/ \E w \in Workers : Runs(w, i)

\* C34: processBatch and testIPs call the processor once for every item, in
\* whatever order the workers take the next item: an item not yet taken has
\* no call, an item taken has one call that is either in flight or counted,
\* never both and never with two workers, the count of completions (where
\* the scheduler keeps one) is the number of settled items, no item is twice
\* in the results, and the scheduler resolves only when every item has
\* settled.
C34_EachItemProcessedOnce ==
  /\ \A i \in ItemIds :
       /\ Cardinality({w \in Workers : Runs(w, i)}) <= 1
       /\ i > currentIndex => ~Processing(i) /\ ~Counted(i)
       /\ (i <= currentIndex /\ phase # "init") => (Processing(i) <=> ~Counted(i))
  /\ phase # "slices" => completed = Cardinality({i \in ItemIds : Counted(i)})
  /\ \A m, n \in 1..Len(results) : m # n => results[m] # results[n]
  /\ phase \in {"done", "resolved"} =>
       /\ \A i \in ItemIds : Counted(i)
       /\ \A w \in Workers : ~Busy(w)

\* processBatch resolved after its workers shared out a list longer than
\* their number
C34_Witness ==
  /\ phase = "done"
  /\ Len(items) > CONCURRENCY_LIMIT
  /\ completed = Len(items)
  /\ \E i \in ItemIds : outcome[i] = "valid"
  /\ \E i \in ItemIds : outcome[i] = "error"

\* the connections the pool held and holds no more
Evicted == {s \in DOMAIN sockets : sockets[s].stage = "ready" /\ s \notin Pooled(connections)}

\* C35: stats.closed counts the connections the pool destroyed: it never
\* exceeds the connections that left the pool nor stats.created, destroy()
\* included.
C35_ClosedCountsDestroyed ==
  /\ stats.closed <= Cardinality(Evicted)
  /\ stats.closed <= stats.created

(***************************************************************************)
(* Part VI claims: the loaded endpoints.                                   *)
(***************************************************************************)
\* C36: every endpoint readIpsCsv accepted, IPv4 or IPv6, is probed: the
\* checkProxy call on it reaches the pool acquire, with the address and the
\* port of its row.
C36_AcceptedEndpointsProbed ==
  \A i \in 1..Len(loader.calls) :
    /\ loader.calls[i].acquire
    /\ \E r \in 1..Len(csv) : /\ loader.calls[i].ip = csv[r].ip
                              /\ loader.calls[i].port = parseInt(csv[r].port, 10)

(***************************************************************************)
(* Part V claims, continued: the two lists against each other and the      *)
(* group key.                                                              *)
(***************************************************************************)
\* the first n lines of a list, the whole list when it is shorter
FirstOf(list, n) == SubSeq(list, 1, IF n < Len(list) THEN n ELSE Len(list))

\* C37: every line of a written top list is a line of the all list with the
\* same number, and the top lines of a country are the first min(cap, k) of
\* the k lines the country has in the all list.
C37_TopIsHeadOfAll ==
  output.written =>
    /\ \A i \in 1..Len(output.top) :
         \E j \in 1..Len(output.all) : output.all[j] = output.top[i]
    /\ \A c \in CountriesOf(output.all) \cup CountriesOf(output.top) :
         GroupOf(output.top, c) = FirstOf(GroupOf(output.all, c), limit)

\* a country with more lines in the all list than the cap and a second
\* country in both lists
C37_Witness ==
  /\ output.written
  /\ \E c \in CountriesOf(output.all) :
       /\ Len(GroupOf(output.all, c)) > limit
       /\ GroupOf(output.top, c) # <<>>
  /\ Cardinality(CountriesOf(output.top)) > 1

\* C38: the group key of a line is a fixed point of the normalization, and
\* the label written after #, the key followed by the line's number,
\* normalizes to the key again: a line read back from a written file falls
\* into the group it was written for.
C38_EmittedLabelKeepsGroup ==
  (output.written /\ program \in {"main", "test"}) =>
    \A i \in 1..Len(output.all) :
      LET line == output.all[i]
      IN  /\ line.country = countryBase(probes[line.ip].location)
          /\ countryBase(line.country) = line.country
          /\ countryBase(line.country \o toDigits(line.rank)) = line.country

====
